---- MODULE Spec2Model ----
(***************************************************************************)
(* Model of the oraclesql_table module (plugins/modules/oraclesql_table.py) *)
(* of the oracle_sql Ansible collection: one invocation of run_module is a *)
(* run against the database table named by table_name; the database        *)
(* outlives the runs.                                                      *)
(*                                                                         *)
(* Strings that the code builds with f-strings are kept structured: a type *)
(* string such as "NUMBER(10,0)" is the tuple <<"NUMBER","10","0">>, and a *)
(* SQL statement is a record naming its verb, its object and its clauses.  *)
(***************************************************************************)
EXTENDS FiniteSets, Integers, Sequences, TLC

\* Python's None (a parameter that was not given, a NULL catalog field).
None == "<None>"

\* Python truthiness of an optional str parameter: None and '' are false.
Truthy(v) == v \notin {None, ""}

\* Python truthiness of an optional int parameter (kept as its digits): None
\* and 0 are false.
TruthyInt(v) == v \notin {None, "0"}

\* module.params['table_name']; the model follows one table.
table_name == "T"

\* --------------------------------------------------------------------------
\* Bounds
\* --------------------------------------------------------------------------
\* Number of module invocations in one behaviour.
MaxRuns == 2

\* --------------------------------------------------------------------------
\* Sequence helpers
\* --------------------------------------------------------------------------
RECURSIVE Flatten(_)
\* ss[1] \o ss[2] \o ... : what a for-loop emits when its i-th iteration
\* emits ss[i].
Flatten(ss) == IF ss = <<>> THEN <<>> ELSE Head(ss) \o Flatten(Tail(ss))

Range(s) == {s[i] : i \in DOMAIN s}

\* --------------------------------------------------------------------------
\* Desired state (module.params)
\* --------------------------------------------------------------------------
\* One entry of params['columns'].
Col(name, type, primary_key, nullable, unique, default, check, comment) ==
    [name |-> name, type |-> type, primary_key |-> primary_key,
     nullable |-> nullable, unique |-> unique, default |-> default,
     check |-> check, comment |-> comment]

\* One entry of params['indexes'].
Idx(name, columns, unique, type) ==
    [name |-> name, columns |-> columns, unique |-> unique, type |-> type]

\* One entry of params['foreign_keys'].
Fk(name, columns, reference_table, reference_columns, on_delete) ==
    [name |-> name, columns |-> columns, reference_table |-> reference_table,
     reference_columns |-> reference_columns, on_delete |-> on_delete]

\* --------------------------------------------------------------------------
\* SQL statements handed to cursor.execute
\* --------------------------------------------------------------------------
\* verb: the kind of statement; object: the column, constraint or index it
\* names ("" for the table itself); columns: the column list of its clause;
\* clause: the remaining text, as a tuple of strings.
Stmt(verb, object, columns, clause) ==
    [verb |-> verb, object |-> object, columns |-> columns, clause |-> clause]

\* A point of the code that raises a Python exception instead of executing.
Raise(exc) == Stmt("raise", exc, <<>>, <<>>)

\* str(v) inside an f-string: None is rendered as the text 'None'.
Str(v) == IF v = None THEN "None" ELSE v

\* --------------------------------------------------------------------------
\* Catalog reader
\* --------------------------------------------------------------------------
\* A Python dict is modelled as the sequence of its items in insertion order,
\* each item a record [key, value]; a later item with a key already present
\* overwrites the value in place.
Keys(d) == {d[i].key : i \in DOMAIN d}

\* d[k] for a key k of d.
Get(d, k) == d[CHOOSE i \in DOMAIN d : d[i].key = k].value

Put(d, k, v) ==
    IF k \in Keys(d)
    THEN [i \in DOMAIN d |-> IF d[i].key = k THEN [key |-> k, value |-> v] ELSE d[i]]
    ELSE Append(d, [key |-> k, value |-> v])

\* The type string get_existing_columns rebuilds from one user_tab_columns
\* row: TYPE(length) for VARCHAR2/CHAR, NUMBER(precision,scale) for a NUMBER
\* with a precision, the bare data_type otherwise.
ExistingType(row) ==
    IF row.data_type \in {"VARCHAR2", "CHAR"}
    THEN <<row.data_type, row.data_length>>
    ELSE IF row.data_type = "NUMBER" /\ row.data_precision # None
         THEN <<row.data_type, Str(row.data_precision), Str(row.data_scale)>>
         ELSE <<row.data_type>>

\* rows: cursor.fetchall() of the user_tab_columns query, in fetch order.
get_existing_columns(rows) ==
    [i \in DOMAIN rows |->
        [key |-> rows[i].column_name,
         value |-> [type |-> ExistingType(rows[i]),
                    nullable |-> rows[i].nullable = "Y",
                    default |-> rows[i].data_default,
                    comment |-> rows[i].comments]]]

ConstraintTypeName(t) ==
    IF t = "P" THEN "PRIMARY KEY"
    ELSE IF t = "U" THEN "UNIQUE"
    ELSE IF t = "C" THEN "CHECK" ELSE "FOREIGN KEY"

\* rows: cursor.fetchall() of the user_constraints query. The values of the
\* returned dict have the keys type, column, condition and reference only.
get_existing_constraints(rows) ==
    [i \in DOMAIN rows |->
        [key |-> rows[i].constraint_name,
         value |-> [type |-> ConstraintTypeName(rows[i].constraint_type),
                    column |-> rows[i].column_name,
                    condition |-> rows[i].search_condition,
                    reference |-> rows[i].r_constraint_name]]]

RECURSIVE IndexesFrom(_, _)
\* The loop of get_existing_indexes over the fetched rows: the first row of an
\* index creates its entry, every row appends its column_name.
IndexesFrom(rows, indexes) ==
    IF rows = <<>> THEN indexes
    ELSE LET row == Head(rows)
             cur == IF row.index_name \in Keys(indexes)
                    THEN Get(indexes, row.index_name)
                    ELSE [type |-> IF row.index_type = "BITMAP" THEN "BITMAP" ELSE "BTREE",
                          unique |-> row.uniqueness = "UNIQUE",
                          columns |-> <<>>]
         IN  IndexesFrom(Tail(rows),
                         Put(indexes, row.index_name,
                             [cur EXCEPT !.columns = Append(@, row.column_name)]))

get_existing_indexes(rows) == IndexesFrom(rows, <<>>)

\* --------------------------------------------------------------------------
\* modify_table: the statements it hands to cursor.execute, in order
\* --------------------------------------------------------------------------
\* A statement list stops at the first point that raises.
UpToRaise(stmts) ==
    LET R == {i \in DOMAIN stmts : stmts[i].verb = "raise"}
    IN  IF R = {} THEN stmts
        ELSE SubSeq(stmts, 1, CHOOSE i \in R : \A j \in R : i <= j)

\* A list parameter: the list the task gives, or None when the task leaves the
\* parameter out (the argument_spec declares no default for it).
Given(list) == [given |-> TRUE, list |-> list]

NotGiven == [given |-> FALSE, list |-> <<>>]

\* for x in v: iterating None raises TypeError.
Iterate(v, body) == IF ~v.given THEN <<Raise("TypeError")>> ELSE body

\* " NOT NULL" / " DEFAULT ..." suffixes of ALTER TABLE ... ADD.
AddColumnClause(col) ==
    col.type \o (IF ~col.nullable THEN <<"NOT NULL">> ELSE <<>>)
             \o (IF Truthy(col.default) THEN <<"DEFAULT", col.default>> ELSE <<>>)

\* ColumnStmts comparing the desired type with the bare data_type of the
\* catalog instead of the rebuilt type string.
ColumnStmts_BareType(col, existing_columns) ==
    IF col.name \notin Keys(existing_columns)
    THEN <<Stmt("AddColumn", col.name, <<>>, AddColumnClause(col))>>
    ELSE LET existing_col == Get(existing_columns, col.name)
         IN  (IF <<existing_col.type[1]>> # col.type \/ existing_col.nullable # col.nullable
              THEN <<Stmt("ModifyColumn", col.name, <<>>,
                          col.type \o <<IF col.nullable THEN "NULL" ELSE "NOT NULL">>)>>
              ELSE <<>>)
          \o (IF existing_col.default # col.default
              THEN <<Stmt("SetDefault", col.name, <<>>,
                          <<IF Truthy(col.default) THEN col.default ELSE "NULL">>)>>
              ELSE <<>>)
          \o (IF existing_col.comment # col.comment
              THEN <<Stmt("CommentColumn", col.name, <<>>, <<Str(col.comment)>>)>>
              ELSE <<>>)

\* ColumnStmts putting a changed default into the combined MODIFY instead of
\* a statement of its own.
ColumnStmts_DefaultInModify(col, existing_columns) ==
    IF col.name \notin Keys(existing_columns)
    THEN <<Stmt("AddColumn", col.name, <<>>, AddColumnClause(col))>>
    ELSE LET existing_col == Get(existing_columns, col.name)
         IN  (IF existing_col.type # col.type \/ existing_col.nullable # col.nullable \/ existing_col.default # col.default
              THEN <<Stmt("ModifyColumn", col.name, <<>>,
                          col.type \o <<IF col.nullable THEN "NULL" ELSE "NOT NULL">>)>>
              ELSE <<>>)
          \o (IF existing_col.comment # col.comment
              THEN <<Stmt("CommentColumn", col.name, <<>>, <<Str(col.comment)>>)>>
              ELSE <<>>)

\* One iteration of the "Modify columns" loop.
ColumnStmts(col, existing_columns) ==
    IF col.name \notin Keys(existing_columns)
    THEN <<Stmt("AddColumn", col.name, <<>>, AddColumnClause(col))>>
    ELSE LET existing_col == Get(existing_columns, col.name)
         IN  (IF existing_col.type # col.type \/ existing_col.nullable # col.nullable
              THEN <<Stmt("ModifyColumn", col.name, <<>>,
                          col.type \o <<IF col.nullable THEN "NULL" ELSE "NOT NULL">>)>>
              ELSE <<>>)
          \o (IF existing_col.default # col.default
              THEN <<Stmt("SetDefault", col.name, <<>>,
                          <<IF Truthy(col.default) THEN col.default ELSE "NULL">>)>>
              ELSE <<>>)
          \o (IF existing_col.comment # col.comment
              THEN <<Stmt("CommentColumn", col.name, <<>>, <<Str(col.comment)>>)>>
              ELSE <<>>)

ModifyColumnsStmts(desired_state, existing_columns) ==
    Iterate(desired_state.columns,
        Flatten([i \in DOMAIN desired_state.columns.list |->
                    ColumnStmts(desired_state.columns.list[i], existing_columns)]))

\* [col['name'] for col in desired_state['columns']]
DesiredColumnNames(desired_state) ==
    {desired_state.columns.list[i].name : i \in DOMAIN desired_state.columns.list}

\* "Remove columns that are not in the desired state", in dict order.
DropColumnsStmts(desired_state, existing_columns) ==
    Flatten([i \in DOMAIN existing_columns |->
                IF existing_columns[i].key \notin DesiredColumnNames(desired_state)
                THEN <<Stmt("DropColumn", existing_columns[i].key, <<>>, <<>>)>>
                ELSE <<>>])

\* next((col['name'] for col in columns if col.get('primary_key')), None)
FirstPrimaryKey(columns) ==
    LET P == {i \in DOMAIN columns : columns[i].primary_key}
    IN  IF P = {} THEN None ELSE columns[CHOOSE i \in P : \A j \in P : i <= j].name

RECURSIVE DesiredFrom(_, _)
\* The loop that adds uk_<table>_<column> and ck_<table>_<column> entries.
DesiredFrom(columns, d) ==
    IF columns = <<>> THEN d
    ELSE LET col == Head(columns)
             d1  == IF col.unique
                    THEN Put(d, "uk_" \o table_name \o "_" \o col.name,
                             [type |-> "UNIQUE", column |-> col.name])
                    ELSE d
             d2  == IF Truthy(col.check)
                    THEN Put(d1, "ck_" \o table_name \o "_" \o col.name,
                             [type |-> "CHECK", column |-> col.name, condition |-> col.check])
                    ELSE d1
         IN  DesiredFrom(Tail(columns), d2)

desired_constraints(desired_state) ==
    DesiredFrom(desired_state.columns.list,
                <<[key |-> "pk_" \o table_name,
                   value |-> [type |-> "PRIMARY KEY",
                              column |-> FirstPrimaryKey(desired_state.columns.list)]]>>)

\* next((c['condition'] for c in desired if CHECK on this column), None)
DesiredCondition(desired, column) ==
    LET M == {i \in DOMAIN desired : /\ desired[i].value.type = "CHECK"
                                      /\ desired[i].value.column = column}
    IN  IF M = {} THEN None ELSE desired[CHOOSE i \in M : \A j \in M : i <= j].value.condition

\* The condition under which the loop over the existing constraints decides
\* to drop one of them.
MustDropConstraint(constraint, desired_state, desired) ==
    /\ constraint.type \in {"PRIMARY KEY", "UNIQUE", "CHECK"}
    /\ \/ constraint.column \notin DesiredColumnNames(desired_state)
       \/ constraint.type \notin {desired[i].value.type : i \in DOMAIN desired}
       \/ /\ constraint.type = "CHECK"
          /\ constraint.condition # DesiredCondition(desired, constraint.column)

\* The statement of that drop names constraint['name']; a dict value without
\* that key raises KeyError while the statement text is built.
DropConstraintStmt(constraint) ==
    IF "name" \in DOMAIN constraint
    THEN Stmt("DropConstraint", constraint.name, <<>>, <<>>)
    ELSE Raise("KeyError")

DropConstraintsStmts(desired_state, existing_constraints) ==
    Flatten([i \in DOMAIN existing_constraints |->
                IF MustDropConstraint(existing_constraints[i].value, desired_state,
                                      desired_constraints(desired_state))
                THEN <<DropConstraintStmt(existing_constraints[i].value)>>
                ELSE <<>>])

AddConstraintsStmts(desired_state, existing_constraints) ==
    LET desired == desired_constraints(desired_state)
    IN  Flatten([i \in DOMAIN desired |->
            IF /\ Truthy(desired[i].value.column)
               /\ desired[i].key \notin Keys(existing_constraints)
            THEN <<Stmt("AddConstraint", desired[i].key,
                        IF desired[i].value.type = "CHECK" THEN <<>>
                        ELSE <<desired[i].value.column>>,
                        IF desired[i].value.type = "CHECK"
                        THEN <<"CHECK", desired[i].value.condition>>
                        ELSE <<desired[i].value.type>>)>>
            ELSE <<>>])

CreateIndexStmt(index) ==
    Stmt("CreateIndex", index.name, index.columns,
         (IF index.unique THEN <<"UNIQUE">> ELSE <<>>)
         \o (IF index.type = "BITMAP" THEN <<"BITMAP">> ELSE <<>>))

\* IndexStmts comparing the columns of the two indexes as sets.
IndexStmts_IgnoresColumnOrder(index, existing_indexes) ==
    IF index.name \notin Keys(existing_indexes)
    THEN <<CreateIndexStmt(index)>>
    ELSE LET existing_index == Get(existing_indexes, index.name)
         IN  IF \/ existing_index.unique # index.unique
                \/ existing_index.type # index.type
                \/ Range(existing_index.columns) # Range(index.columns)
             THEN <<Stmt("DropIndex", index.name, <<>>, <<>>), CreateIndexStmt(index)>>
             ELSE <<>>

\* One iteration of the "Manage indexes" loop over the desired indexes.
IndexStmts(index, existing_indexes) ==
    IF index.name \notin Keys(existing_indexes)
    THEN <<CreateIndexStmt(index)>>
    ELSE LET existing_index == Get(existing_indexes, index.name)
         IN  IF \/ existing_index.unique # index.unique
                \/ existing_index.type # index.type
                \/ existing_index.columns # index.columns
             THEN <<Stmt("DropIndex", index.name, <<>>, <<>>), CreateIndexStmt(index)>>
             ELSE <<>>

ManageIndexesStmts(desired_state, existing_indexes) ==
    Iterate(desired_state.indexes,
        Flatten([i \in DOMAIN desired_state.indexes.list |->
                    IndexStmts(desired_state.indexes.list[i], existing_indexes)])
        \o Flatten([i \in DOMAIN existing_indexes |->
                    IF existing_indexes[i].key \notin
                           {desired_state.indexes.list[j].name : j \in DOMAIN desired_state.indexes.list}
                    THEN <<Stmt("DropIndex", existing_indexes[i].key, <<>>, <<>>)>>
                    ELSE <<>>]))

AddForeignKeyStmt(fk) ==
    Stmt("AddForeignKey", fk.name, fk.columns,
         <<fk.reference_table>> \o fk.reference_columns
         \o (IF Truthy(fk.on_delete) THEN <<"ON DELETE", fk.on_delete>> ELSE <<>>))

\* ForeignKeyStmts leaving a foreign key alone when a live constraint has its
\* name.
ForeignKeyStmts_KeepsExisting(fk, existing_constraints) ==
    IF fk.name \notin Keys(existing_constraints)
    THEN <<AddForeignKeyStmt(fk)>>
    ELSE <<>>

\* One iteration of the "Manage foreign keys" loop.
ForeignKeyStmts(fk, existing_constraints) ==
    IF fk.name \notin Keys(existing_constraints)
    THEN <<AddForeignKeyStmt(fk)>>
    ELSE <<Stmt("DropConstraint", fk.name, <<>>, <<>>), AddForeignKeyStmt(fk)>>

\* ManageForeignKeysStmts that also drops the live foreign keys the task does
\* not name, as the index section does with indexes.
ManageForeignKeysStmts_DropsUndesired(desired_state, existing_constraints) ==
    Iterate(desired_state.foreign_keys,
        Flatten([i \in DOMAIN desired_state.foreign_keys.list |->
                    ForeignKeyStmts(desired_state.foreign_keys.list[i], existing_constraints)])
        \o Flatten([i \in DOMAIN existing_constraints |->
                    IF /\ existing_constraints[i].value.type = "FOREIGN KEY"
                       /\ \A k \in DOMAIN desired_state.foreign_keys.list :
                             desired_state.foreign_keys.list[k].name # existing_constraints[i].key
                    THEN <<Stmt("DropConstraint", existing_constraints[i].key, <<>>, <<>>)>>
                    ELSE <<>>]))

ManageForeignKeysStmts(desired_state, existing_constraints) ==
    Iterate(desired_state.foreign_keys,
        Flatten([i \in DOMAIN desired_state.foreign_keys.list |->
                    ForeignKeyStmts(desired_state.foreign_keys.list[i], existing_constraints)]))

\* PropertyStmts with compress read as false when the task leaves it out.
PropertyStmts_CompressDefaultsFalse(desired_state) ==
       (IF Truthy(desired_state.tablespace)
        THEN <<Stmt("MoveTablespace", "", <<>>, <<desired_state.tablespace>>)>> ELSE <<>>)
    \o (IF TruthyInt(desired_state.parallel)
        THEN <<Stmt("Parallel", "", <<>>, <<desired_state.parallel>>)>> ELSE <<>>)
    \o <<Stmt("Compress", "", <<>>,
              <<IF desired_state.compress = "True" THEN "COMPRESS" ELSE "NOCOMPRESS">>)>>
    \o (IF desired_state.row_movement # None
        THEN <<Stmt("RowMovement", "", <<>>,
                    <<IF desired_state.row_movement = "True" THEN "ENABLE" ELSE "DISABLE">>)>>
        ELSE <<>>)
    \o (IF Truthy(desired_state.comment)
        THEN <<Stmt("CommentTable", "", <<>>, <<desired_state.comment>>)>> ELSE <<>>)

\* "Update table properties" and "Update table comment".
PropertyStmts(desired_state) ==
       (IF Truthy(desired_state.tablespace)
        THEN <<Stmt("MoveTablespace", "", <<>>, <<desired_state.tablespace>>)>> ELSE <<>>)
    \o (IF TruthyInt(desired_state.parallel)
        THEN <<Stmt("Parallel", "", <<>>, <<desired_state.parallel>>)>> ELSE <<>>)
    \o (IF desired_state.compress # None
        THEN <<Stmt("Compress", "", <<>>,
                    <<IF desired_state.compress = "True" THEN "COMPRESS" ELSE "NOCOMPRESS">>)>>
        ELSE <<>>)
    \o (IF desired_state.row_movement # None
        THEN <<Stmt("RowMovement", "", <<>>,
                    <<IF desired_state.row_movement = "True" THEN "ENABLE" ELSE "DISABLE">>)>>
        ELSE <<>>)
    \o (IF Truthy(desired_state.comment)
        THEN <<Stmt("CommentTable", "", <<>>, <<desired_state.comment>>)>> ELSE <<>>)

\* Two consecutive pieces of code: the second runs only if the first did not
\* raise.
Then(first, second) ==
    IF \E i \in DOMAIN first : first[i].verb = "raise"
    THEN UpToRaise(first) ELSE first \o second

\* modify_table with the column drops moved behind the foreign keys.
modify_table_DropsLast(desired_state, existing_columns, existing_constraints, existing_indexes) ==
    Then(ModifyColumnsStmts(desired_state, existing_columns),
    Then(DropConstraintsStmts(desired_state, existing_constraints),
    Then(AddConstraintsStmts(desired_state, existing_constraints),
    Then(ManageIndexesStmts(desired_state, existing_indexes),
    Then(ManageForeignKeysStmts(desired_state, existing_constraints),
    Then(DropColumnsStmts(desired_state, existing_columns),
         PropertyStmts(desired_state)))))))

\* modify_table with the indexes managed before the columns.
modify_table_IndexesFirst(desired_state, existing_columns, existing_constraints, existing_indexes) ==
    Then(ManageIndexesStmts(desired_state, existing_indexes),
    Then(ModifyColumnsStmts(desired_state, existing_columns),
    Then(DropColumnsStmts(desired_state, existing_columns),
    Then(DropConstraintsStmts(desired_state, existing_constraints),
    Then(AddConstraintsStmts(desired_state, existing_constraints),
    Then(ManageForeignKeysStmts(desired_state, existing_constraints),
         PropertyStmts(desired_state)))))))

\* modify_table with the table properties updated first.
modify_table_PropertiesFirst(desired_state, existing_columns, existing_constraints, existing_indexes) ==
    Then(PropertyStmts(desired_state),
    Then(ModifyColumnsStmts(desired_state, existing_columns),
    Then(DropColumnsStmts(desired_state, existing_columns),
    Then(DropConstraintsStmts(desired_state, existing_constraints),
    Then(AddConstraintsStmts(desired_state, existing_constraints),
    Then(ManageIndexesStmts(desired_state, existing_indexes),
         ManageForeignKeysStmts(desired_state, existing_constraints)))))))

\* Everything modify_table hands to cursor.execute after its three catalog
\* reads, in order, up to the first point that raises.
modify_table(desired_state, existing_columns, existing_constraints, existing_indexes) ==
    Then(ModifyColumnsStmts(desired_state, existing_columns),
    Then(DropColumnsStmts(desired_state, existing_columns),
    Then(DropConstraintsStmts(desired_state, existing_constraints),
    Then(AddConstraintsStmts(desired_state, existing_constraints),
    Then(ManageIndexesStmts(desired_state, existing_indexes),
    Then(ManageForeignKeysStmts(desired_state, existing_constraints),
         PropertyStmts(desired_state)))))))

\* --------------------------------------------------------------------------
\* create_table and drop_table
\* --------------------------------------------------------------------------
\* The column definition of CREATE TABLE: name type [NOT NULL] [DEFAULT d]
\* [CHECK (c)], closed by a "," separator.
ColumnDef(col) ==
    <<col.name>> \o col.type
    \o (IF ~col.nullable THEN <<"NOT NULL">> ELSE <<>>)
    \o (IF Truthy(col.default) THEN <<"DEFAULT", col.default>> ELSE <<>>)
    \o (IF Truthy(col.check) THEN <<"CHECK", col.check>> ELSE <<>>)
    \o <<",">>

\* The clauses after the column list of CREATE TABLE.
CreateTableOptions(table_info) ==
       (IF Truthy(table_info.tablespace) THEN <<"TABLESPACE", table_info.tablespace>> ELSE <<>>)
    \o (IF Truthy(table_info.partitioning) THEN <<"PARTITION BY", table_info.partitioning>> ELSE <<>>)
    \o (IF table_info.compress = "True" THEN <<"COMPRESS">> ELSE <<>>)
    \o (IF TruthyInt(table_info.parallel) THEN <<"PARALLEL", table_info.parallel>> ELSE <<>>)
    \o (IF table_info.row_movement = "True" THEN <<"ENABLE ROW MOVEMENT">> ELSE <<>>)

\* table_info is module.params. The statement text is built from
\* table_info['name']: a record without that field raises KeyError before
\* anything is executed.
create_table(table_info) ==
    Iterate(table_info.columns,
        IF "name" \notin DOMAIN table_info
        THEN <<Raise("KeyError")>>
        ELSE LET primary_key == FirstPrimaryKey(table_info.columns.list)
             IN  <<Stmt("CreateTable", table_info.name,
                        IF Truthy(primary_key) THEN <<primary_key>> ELSE <<>>,
                        (IF table_info.temporary THEN <<"TEMPORARY", ",">> ELSE <<",">>)
                        \o Flatten([i \in DOMAIN table_info.columns.list |->
                                       ColumnDef(table_info.columns.list[i])])
                        \o CreateTableOptions(table_info))>>
                 \o Flatten([i \in DOMAIN table_info.columns.list |->
                        IF Truthy(table_info.columns.list[i].comment)
                        THEN <<Stmt("CommentColumn", table_info.columns.list[i].name, <<>>,
                                    <<table_info.columns.list[i].comment>>)>>
                        ELSE <<>>])
                 \o (IF Truthy(table_info.comment)
                     THEN <<Stmt("CommentTable", "", <<>>, <<table_info.comment>>)>>
                     ELSE <<>>))

\* drop_table without its cursor.execute.
drop_table_Nothing == <<>>

drop_table == <<Stmt("DropTable", "", <<>>, <<>>)>>

gather_table_stats == Stmt("GatherStats", "", <<>>, <<>>)

\* --------------------------------------------------------------------------
\* The database behind cursor.execute: the catalog views the module queries
\* and the effect of the statements it issues on them
\* --------------------------------------------------------------------------
\* The table does not exist: every catalog query returns no row.
NoProps == [tablespace |-> None, degree |-> None, compression |-> None,
            row_movement |-> None, comments |-> None]

NoTable == [exists |-> FALSE, columns |-> {}, constraints |-> {}, indexes |-> {},
            props |-> NoProps]

\* A row of user_tab_columns LEFT JOIN user_col_comments.
TabColumn(column_name, data_type, data_length, nullable, data_precision, data_scale, data_default, comments) ==
    [column_name |-> column_name, data_type |-> data_type, data_length |-> data_length,
     nullable |-> nullable, data_precision |-> data_precision, data_scale |-> data_scale,
     data_default |-> data_default, comments |-> comments]

\* A row of user_constraints JOIN user_cons_columns.
ConsRow(constraint_name, constraint_type, column_name, search_condition, r_constraint_name) ==
    [constraint_name |-> constraint_name, constraint_type |-> constraint_type,
     column_name |-> column_name, search_condition |-> search_condition,
     r_constraint_name |-> r_constraint_name]

\* A row of user_indexes JOIN user_ind_columns.
IndRow(index_name, index_type, uniqueness, column_name, column_position) ==
    [index_name |-> index_name, index_type |-> index_type, uniqueness |-> uniqueness,
     column_name |-> column_name, column_position |-> column_position]

\* cursor.fetchall() of a query without ORDER BY: the rows in any order.
FetchOrders(rows) ==
    {s \in [1..Cardinality(rows) -> rows] : \A i, j \in DOMAIN s : i # j => s[i] # s[j]}

\* The catalog columns the database derives from a type string.
TypeRow(type) ==
    IF type[1] = "NUMBER"
    THEN [data_type |-> "NUMBER", data_length |-> "22",
          data_precision |-> IF Len(type) >= 2 THEN type[2] ELSE None,
          data_scale |-> IF Len(type) >= 3 THEN type[3]
                         ELSE IF Len(type) = 2 THEN "0" ELSE None]
    ELSE [data_type |-> type[1],
          data_length |-> IF Len(type) >= 2 THEN type[2] ELSE "7",
          data_precision |-> None, data_scale |-> None]

\* The words of a column clause: the type comes first, then NULL / NOT NULL
\* and DEFAULT <expr>.
ClauseType(clause) ==
    LET K == {i \in DOMAIN clause : clause[i] \in {"NULL", "NOT NULL", "DEFAULT", "CHECK"}}
    IN  IF K = {} THEN clause
        ELSE SubSeq(clause, 1, (CHOOSE i \in K : \A j \in K : i <= j) - 1)

ClauseDefault(clause) ==
    LET K == {i \in DOMAIN clause : clause[i] = "DEFAULT"}
    IN  IF K = {} THEN None ELSE clause[(CHOOSE i \in K : TRUE) + 1]

RECURSIVE Split(_, _)
\* The pieces of a CREATE TABLE clause between its "," separators; cur is the
\* piece being read.
Split(clause, cur) ==
    IF clause = <<>> THEN <<cur>>
    ELSE IF Head(clause) = "," THEN <<cur>> \o Split(Tail(clause), <<>>)
    ELSE Split(Tail(clause), Append(cur, Head(clause)))

\* The column definitions of a CREATE TABLE clause: the pieces between the
\* leading keywords and the trailing table options.
ColumnDefs(clause) == SubSeq(Split(clause, <<>>), 2, Len(Split(clause, <<>>)) - 1)

\* The column a check condition is about (its first word).
ConditionColumn == [c \in {"A > 0", "A > 1", "B > 0"} |-> IF c = "B > 0" THEN "B" ELSE "A"]

LiveColumnNames(d) == {r.column_name : r \in d.columns}

LiveConstraintNames(d) == {r.constraint_name : r \in d.constraints}

LiveIndexNames(d) == {r.index_name : r \in d.indexes}

\* Statements the database rejects whatever else happens: they name an object
\* that does not exist, or create one that does.
Rejected(d, stmt) ==
    \/ stmt.verb # "CreateTable" /\ ~d.exists
    \/ stmt.verb = "CreateTable" /\ d.exists
    \/ stmt.verb = "AddColumn" /\ stmt.object \in LiveColumnNames(d)
    \/ /\ stmt.verb \in {"ModifyColumn", "SetDefault", "CommentColumn", "DropColumn"}
       /\ stmt.object \notin LiveColumnNames(d)
    \/ stmt.verb = "DropColumn" /\ LiveColumnNames(d) = {stmt.object}
    \/ stmt.verb = "DropConstraint" /\ stmt.object \notin LiveConstraintNames(d)
    \/ stmt.verb \in {"AddConstraint", "AddForeignKey"} /\ stmt.object \in LiveConstraintNames(d)
    \/ /\ stmt.verb \in {"AddConstraint", "AddForeignKey", "CreateIndex"}
       /\ \E i \in DOMAIN stmt.columns : stmt.columns[i] \notin LiveColumnNames(d)
    \/ /\ stmt.verb = "AddForeignKey"
       /\ Len(stmt.columns) # (IF \E i \in DOMAIN stmt.clause : stmt.clause[i] = "ON DELETE"
                               THEN Len(stmt.clause) - 3 ELSE Len(stmt.clause) - 1)
    \/ stmt.verb = "DropIndex" /\ stmt.object \notin LiveIndexNames(d)
    \/ stmt.verb = "CreateIndex" /\ stmt.object \in LiveIndexNames(d)

\* The catalog after the statement has been executed successfully.
Execute(d, stmt) ==
    CASE stmt.verb = "AddColumn" ->
            [d EXCEPT !.columns = @ \cup
                {LET t == TypeRow(ClauseType(stmt.clause))
                 IN  TabColumn(stmt.object, t.data_type, t.data_length,
                               IF \E i \in DOMAIN stmt.clause : stmt.clause[i] = "NOT NULL"
                               THEN "N" ELSE "Y",
                               t.data_precision, t.data_scale,
                               ClauseDefault(stmt.clause), None)}]
      [] stmt.verb = "ModifyColumn" ->
            [d EXCEPT !.columns =
                {IF r.column_name # stmt.object THEN r
                 ELSE LET t == TypeRow(ClauseType(stmt.clause))
                      IN  [r EXCEPT !.data_type = t.data_type,
                                    !.data_length = t.data_length,
                                    !.data_precision = t.data_precision,
                                    !.data_scale = t.data_scale,
                                    !.nullable = IF stmt.clause[Len(stmt.clause)] = "NOT NULL"
                                                 THEN "N" ELSE "Y"] : r \in @}]
      [] stmt.verb = "SetDefault" ->
            [d EXCEPT !.columns =
                {IF r.column_name # stmt.object THEN r
                 ELSE [r EXCEPT !.data_default = IF stmt.clause[1] = "NULL" THEN None
                                                 ELSE stmt.clause[1]] : r \in @}]
      [] stmt.verb = "CommentColumn" ->
            [d EXCEPT !.columns =
                {IF r.column_name # stmt.object THEN r
                 ELSE [r EXCEPT !.comments = stmt.clause[1]] : r \in @}]
      [] stmt.verb = "DropColumn" ->
            [d EXCEPT !.columns = {r \in @ : r.column_name # stmt.object},
                      !.constraints = {r \in @ : r.column_name # stmt.object},
                      !.indexes = {r \in @ : r.index_name \notin
                                      {q.index_name : q \in {x \in d.indexes :
                                                        x.column_name = stmt.object}}}]
      [] stmt.verb = "DropConstraint" ->
            [d EXCEPT !.constraints = {r \in @ : r.constraint_name # stmt.object}]
      [] stmt.verb = "AddConstraint" ->
            [d EXCEPT !.constraints = @ \cup
                {IF stmt.clause[1] = "CHECK"
                 THEN ConsRow(stmt.object, "C", ConditionColumn[stmt.clause[2]],
                              stmt.clause[2], None)
                 ELSE ConsRow(stmt.object,
                              IF stmt.clause[1] = "PRIMARY KEY" THEN "P" ELSE "U",
                              stmt.columns[1], None, None)}]
      [] stmt.verb = "AddForeignKey" ->
            [d EXCEPT !.constraints = @ \cup
                {ConsRow(stmt.object, "R", stmt.columns[i], None, "pk_" \o stmt.clause[1])
                    : i \in DOMAIN stmt.columns}]
      [] stmt.verb = "CreateIndex" ->
            [d EXCEPT !.indexes = @ \cup
                {IndRow(stmt.object,
                        IF \E k \in DOMAIN stmt.clause : stmt.clause[k] = "BITMAP"
                        THEN "BITMAP" ELSE "NORMAL",
                        IF \E k \in DOMAIN stmt.clause : stmt.clause[k] = "UNIQUE"
                        THEN "UNIQUE" ELSE "NONUNIQUE",
                        stmt.columns[i], i) : i \in DOMAIN stmt.columns}]
      [] stmt.verb = "DropIndex" ->
            [d EXCEPT !.indexes = {r \in @ : r.index_name # stmt.object}]
      [] stmt.verb = "MoveTablespace" -> [d EXCEPT !.props.tablespace = stmt.clause[1]]
      [] stmt.verb = "Parallel" -> [d EXCEPT !.props.degree = stmt.clause[1]]
      [] stmt.verb = "Compress" ->
            [d EXCEPT !.props.compression = IF stmt.clause[1] = "COMPRESS"
                                            THEN "ENABLED" ELSE "DISABLED"]
      [] stmt.verb = "RowMovement" ->
            [d EXCEPT !.props.row_movement = IF stmt.clause[1] = "ENABLE"
                                             THEN "ENABLED" ELSE "DISABLED"]
      [] stmt.verb = "CommentTable" -> [d EXCEPT !.props.comments = stmt.clause[1]]
      [] stmt.verb = "DropTable" -> NoTable
      [] stmt.verb = "CreateTable" ->
            LET defs == ColumnDefs(stmt.clause)
                opts == Split(stmt.clause, <<>>)[Len(Split(stmt.clause, <<>>))]
                After(word) == LET K == {i \in DOMAIN opts : opts[i] = word}
                               IN  IF K = {} THEN None ELSE opts[(CHOOSE i \in K : TRUE) + 1]
            IN  [exists |-> TRUE,
                 columns |->
                    {LET t == TypeRow(ClauseType(Tail(defs[i])))
                     IN  TabColumn(defs[i][1], t.data_type, t.data_length,
                                   IF \E k \in DOMAIN defs[i] : defs[i][k] = "NOT NULL"
                                   THEN "N" ELSE "Y",
                                   t.data_precision, t.data_scale,
                                   ClauseDefault(defs[i]), None) : i \in DOMAIN defs},
                 constraints |->
                    {ConsRow("pk_" \o stmt.object, "P", stmt.columns[i], None, None)
                        : i \in DOMAIN stmt.columns}
                    \cup {ConsRow("SYS_C_" \o defs[i][1], "C", defs[i][1],
                                  defs[i][Len(defs[i])], None)
                            : i \in {k \in DOMAIN defs :
                                       \E m \in DOMAIN defs[k] : defs[k][m] = "CHECK"}},
                 indexes |-> {},
                 props |-> [NoProps EXCEPT
                              !.tablespace = After("TABLESPACE"),
                              !.degree = After("PARALLEL"),
                              !.compression = IF \E k \in DOMAIN opts : opts[k] = "COMPRESS"
                                              THEN "ENABLED" ELSE None,
                              !.row_movement =
                                  IF \E k \in DOMAIN opts : opts[k] = "ENABLE ROW MOVEMENT"
                                  THEN "ENABLED" ELSE None]]
      [] OTHER -> d

\* --------------------------------------------------------------------------
\* Inputs: the task parameters and the databases a run may find
\* --------------------------------------------------------------------------
\* Desired columns named A.
DesiredA ==
    {Col("A", <<"NUMBER">>, TRUE, FALSE, FALSE, None, None, None),
     Col("A", <<"NUMBER">>, FALSE, TRUE, TRUE, None, "A > 0", None)}

\* Desired columns named B.
DesiredB ==
    {Col("B", <<"VARCHAR2", "50">>, FALSE, TRUE, FALSE, None, None, None),
     Col("B", <<"NUMBER", "10">>, FALSE, FALSE, FALSE, "0", None, "note"),
     Col("B", <<"VARCHAR2", "50">>, TRUE, TRUE, TRUE, None, "B > 0", None)}

\* params['columns']: not given, or a list of one or two columns.
DesiredColumnLists ==
    {NotGiven} \cup {Given(<<a>>) : a \in DesiredA} \cup {Given(<<b>>) : b \in DesiredB}
               \cup {Given(<<a, b>>) : a \in DesiredA, b \in DesiredB}
               \cup {Given(<<b, a>>) : b \in DesiredB, a \in DesiredA}

\* params['indexes']: not given, empty, or one index named IDX1.
DesiredIndexLists ==
    {NotGiven, Given(<<>>),
     Given(<<Idx("IDX1", <<"A">>, FALSE, "BTREE")>>),
     Given(<<Idx("IDX1", <<"A", "B">>, TRUE, "BTREE")>>),
     Given(<<Idx("IDX1", <<"B", "A">>, TRUE, "BTREE")>>)}

\* params['foreign_keys']: not given, empty, or one foreign key named FK1.
DesiredForeignKeyLists ==
    {NotGiven, Given(<<>>), Given(<<Fk("FK1", <<"B">>, "R", <<"ID">>, "NO ACTION")>>)}

\* The table-level parameters: all left out, or some given.
DesiredProperties ==
    {[tablespace |-> None, parallel |-> None, compress |-> None, row_movement |-> None,
      comment |-> None, partitioning |-> None],
     [tablespace |-> "TS", parallel |-> None, compress |-> "False", row_movement |-> None,
      comment |-> "tc", partitioning |-> None],
     [tablespace |-> None, parallel |-> "4", compress |-> None, row_movement |-> "True",
      comment |-> None, partitioning |-> "RANGE(A)"]}

\* module.params: the argument_spec has no option called name.
Params(state, check_mode, gather_stats, columns, indexes, foreign_keys, props) ==
    [state |-> state, check_mode |-> check_mode, gather_stats |-> gather_stats,
     table_name |-> table_name, temporary |-> FALSE,
     columns |-> columns, indexes |-> indexes, foreign_keys |-> foreign_keys,
     tablespace |-> props.tablespace, parallel |-> props.parallel,
     compress |-> props.compress, row_movement |-> props.row_movement,
     comment |-> props.comment, partitioning |-> props.partitioning]

PlainProperties == CHOOSE p \in DesiredProperties : p.tablespace = None /\ p.parallel = None

\* A foreign key with one local column and two referenced columns.
MismatchedForeignKeys == Given(<<Fk("FK3", <<"B">>, "R", <<"ID", "ID2">>, "NO ACTION")>>)

\* The column list of the tasks with a mismatched foreign key or an empty
\* partition key.
MismatchedColumns ==
    Given(<<Col("A", <<"NUMBER">>, TRUE, FALSE, FALSE, None, None, None),
            Col("B", <<"VARCHAR2", "50">>, FALSE, TRUE, FALSE, None, None, None)>>)

\* partitioning with an empty list of partition-key columns.
NoPartitionKeys == [PlainProperties EXCEPT !.partitioning = "RANGE()"]

\* The partition-key columns of the partitioning values of the tasks.
PartitionColumns ==
    [p \in {"RANGE(A)", "RANGE()"} |-> IF p = "RANGE(A)" THEN <<"A">> ELSE <<>>]

\* The tasks: every column list with the other parameters plain, every
\* combination of the other parameters with two of the column lists, and the
\* tasks with a mismatched foreign key or an empty partition key.
Tasks ==
    {Params(st, cm, gs, cols, Given(<<>>), Given(<<>>), PlainProperties) :
        st \in {"present", "absent", "modified"}, cm \in BOOLEAN, gs \in BOOLEAN,
        cols \in DesiredColumnLists}
    \cup
    {Params("present", FALSE, FALSE, cols, ix, fk, pr) :
        cols \in {c \in DesiredColumnLists :
                    c.given /\ c.list[1].name = "A" /\ c.list[1].primary_key
                    /\ (Len(c.list) = 2 => ~c.list[2].primary_key /\ c.list[2].nullable)},
        ix \in DesiredIndexLists, fk \in DesiredForeignKeyLists, pr \in DesiredProperties}
    \cup
    {Params("present", FALSE, FALSE, MismatchedColumns, Given(<<>>), fk, pr) :
        fk \in {Given(<<>>), MismatchedForeignKeys},
        pr \in {PlainProperties, NoPartitionKeys}}

\* Live columns.
LiveA ==
    {TabColumn("A", "NUMBER", "22", "N", None, None, None, None),
     TabColumn("A", "NUMBER", "22", "Y", None, None, None, None)}

LiveB ==
    {TabColumn("B", "VARCHAR2", "50", "Y", None, None, None, None),
     TabColumn("B", "NUMBER", "22", "N", "10", "0", "0", "note")}

LiveColumnSets ==
    {{a} : a \in LiveA} \cup {{b} : b \in LiveB} \cup {{a, b} : a \in LiveA, b \in LiveB}

\* Live constraints: the names the module derives, a system-generated name,
\* and foreign keys.
LiveConstraintSets ==
    {{},
     {ConsRow("pk_T", "P", "A", None, None)},
     {ConsRow("pk_T", "P", "A", None, None), ConsRow("FK1", "R", "B", None, "pk_R")},
     {ConsRow("uk_T_A", "U", "A", None, None), ConsRow("ck_T_A", "C", "A", "A > 0", None)},
     {ConsRow("ck_T_A", "C", "A", "A > 1", None)},
     {ConsRow("pk_T", "P", "A", None, None), ConsRow("FK2", "R", "B", None, "pk_R")}}

LiveIndexSets ==
    {{},
     {IndRow("IDX1", "NORMAL", "NONUNIQUE", "A", 1)},
     {IndRow("IDX1", "NORMAL", "UNIQUE", "A", 1), IndRow("IDX1", "NORMAL", "UNIQUE", "B", 2)},
     {IndRow("IDX2", "BITMAP", "NONUNIQUE", "B", 1)}}

LiveProperties ==
    {NoProps, [NoProps EXCEPT !.tablespace = "X", !.compression = "DISABLED"]}

\* The databases a first run may find: no table, every set of live columns
\* without constraints and indexes, and, for the sets with a NOT NULL column A,
\* every combination of live constraints and indexes on the columns of the set.
Databases ==
    {NoTable}
    \cup {[exists |-> TRUE, columns |-> c, constraints |-> {}, indexes |-> {}, props |-> p] :
            c \in LiveColumnSets, p \in LiveProperties}
    \cup {d \in [exists : {TRUE}, columns : LiveColumnSets, constraints : LiveConstraintSets,
                 indexes : LiveIndexSets, props : {NoProps}] :
            /\ "A" \in LiveColumnNames(d)
            /\ \A r \in d.columns : r.nullable = (IF r.column_name = "A" THEN "N" ELSE "Y")
            /\ \A r \in d.constraints : r.column_name \in LiveColumnNames(d)
            /\ \A r \in d.indexes : r.column_name \in LiveColumnNames(d)}

\* --------------------------------------------------------------------------
\* run_module
\* --------------------------------------------------------------------------
VARIABLES
    db,       \* the catalog of the database, which outlives the runs
    params,   \* module.params of the task
    pc,       \* where the run is: Start, Inspecting, Creating, Diffing,
              \* Applying, Finalizing, GatheringStats, Done, Failed
    conn,     \* the connection: "none", "open" or "closed"
    changed,  \* result['changed']
    error,    \* None, or what ended the run: "cx_Oracle.Error" (fail_json in
              \* the except clause), "fail_json" (the table does not exist),
              \* or the name of an uncaught Python exception
    plan,     \* the statements the branch taken hands to cursor.execute
    pos,      \* index in plan of the next statement
    log,      \* what the run has done with the connection so far
    db0,      \* db when the run started
    runs,     \* number of runs started
    prev,     \* how the previous run ended
    existing_indexes  \* the local of modify_table that holds what
                      \* get_existing_indexes returned

\* The state of the oraclesql_table run.
table_vars == <<db, params, pc, conn, changed, error, plan, pos, log, db0, runs, prev, existing_indexes>>

VARIABLES
    sqlplus_params,  \* module.params of the oracle_sqlplus task
    sqlplus_pc,      \* where run_module of oracle_sqlplus is: validate, execute,
                     \* exit, Done, Failed
    item,            \* index in params['loop'] of the next item
    result,          \* the result dict of oracle_sqlplus
    processes,       \* the SQL*Plus processes started so far, in order
    answer           \* the keyword arguments of the exit_json or fail_json call
                     \* that ended the module

\* The state of the oracle_sqlplus run.
sqlplus_vars == <<sqlplus_params, sqlplus_pc, item, result, processes, answer>>

VARIABLES
    loader_params,   \* module.params of the oracle_sqlloader task
    loader_pc,       \* where run_module of oracle_sqlloader is: start,
                     \* validate, options, Done, Failed
    cmd,             \* the argument vector built so far
    started,         \* the argument vectors of the SQL*Loader processes
                     \* started so far, in order
    loader_answer    \* the keyword arguments of the exit_json or fail_json call
                     \* that ended the module

\* The state of the oracle_sqlloader run.
loader_vars == <<loader_params, loader_pc, cmd, started, loader_answer>>

VARIABLES
    dba_users,       \* the names of the users of the Oracle instance
    dba_sys_privs,   \* the pairs <<user, privilege>> granted in the instance
    user_params,     \* module.params of the oraclesql_user task, with check_mode
    user_pc,         \* where oraclesql_user is: connect, query, create, alter,
                     \* grant, drop, Done, Failed
    connection,      \* the connection of oraclesql_user: "none", "open", "closed"
    privilege,       \* the position in privileges of the grant loop
    user_log,        \* the statements oraclesql_user executed, in order
    user_answer      \* the exit_json or fail_json call that ended oraclesql_user

\* The state of the oraclesql_user run and of the users of the instance.
user_vars == <<dba_users, dba_sys_privs, user_params, user_pc, connection, privilege, user_log, user_answer>>

VARIABLES
    databases,       \* the names of the databases of the Oracle installation
    database_params, \* module.params of the oraclesql_database task, with
                     \* check_mode
    database_pc,     \* where oraclesql_database is: start, run, Done, Failed,
                     \* Crashed
    database_log,    \* the statements oraclesql_database executed, in order
    database_answer  \* the exit_json or fail_json call that ended
                     \* oraclesql_database

\* The state of the oraclesql_database run and of the databases.
database_vars == <<databases, database_params, database_pc, database_log, database_answer>>

\* The state of the two administration modules.
admin_vars == <<user_vars, database_vars>>

\* The variables of the modules other than oraclesql_table.
beside_table == <<sqlplus_vars, loader_vars, admin_vars>>

\* The variables of the modules other than oracle_sqlplus.
beside_sqlplus == <<table_vars, loader_vars, admin_vars>>

\* The variables of the modules other than oracle_sqlloader.
beside_loader == <<table_vars, sqlplus_vars, admin_vars>>

\* The variables of the modules other than oraclesql_user and
\* oraclesql_database.
beside_admin == <<table_vars, sqlplus_vars, loader_vars>>

vars == <<table_vars, sqlplus_vars, loader_vars, admin_vars>>

NoStmt == Stmt("", "", <<>>, <<>>)

\* An entry of log: a call on the connection or its cursor, and whether it
\* returned (ok) or raised cx_Oracle.Error.
Event(call, stmt, ok) == [call |-> call, stmt |-> stmt, ok |-> ok]

\* prev before the first run.
NoRun == [pc |-> "", changed |-> FALSE, executed |-> 0]

\* The statements of this run that the database executed, in order.
Applied == SelectSeq(log, LAMBDA e : e.call = "execute" /\ e.ok)

\* The result dict run_module of oracle_sqlplus starts from. A text is kept
\* as the sequence of its lines, text.split('\n'): '' is the one empty line.
\* execution_time is left out.
sqlplus_result == [changed |-> FALSE, original_message |-> "", message |-> "", sqlplus_output |-> <<"">>, results |-> <<>>]

\* No exit_json or fail_json call was made yet.
NoAnswer == [failed |-> FALSE, msg |-> <<>>, kwargs |-> <<>>]

\* The oraclesql_table module is not invoked.
TableIdle ==
    /\ db = NoTable
    /\ params = CHOOSE t \in Tasks : TRUE
    /\ pc = "Idle"
    /\ conn = "none"
    /\ changed = FALSE
    /\ error = None
    /\ plan = <<>>
    /\ pos = 1
    /\ log = <<>>
    /\ db0 = NoTable
    /\ runs = 1
    /\ prev = NoRun
    /\ existing_indexes = <<>>

\* The oracle_sqlloader module is not invoked.
LoaderIdle ==
    /\ loader_params = <<>>
    /\ loader_pc = "Idle"
    /\ cmd = <<>>
    /\ started = <<>>
    /\ loader_answer = NoAnswer

\* The oraclesql_user and oraclesql_database modules are not invoked.
AdminIdle ==
    /\ dba_users = {}
    /\ dba_sys_privs = {}
    /\ user_params = <<>>
    /\ user_pc = "Idle"
    /\ connection = "none"
    /\ privilege = 1
    /\ user_log = <<>>
    /\ user_answer = NoAnswer
    /\ databases = {}
    /\ database_params = <<>>
    /\ database_pc = "Idle"
    /\ database_log = <<>>
    /\ database_answer = NoAnswer

\* The oracle_sqlplus module is not invoked.
SqlplusIdle ==
    /\ sqlplus_params = <<>>
    /\ sqlplus_pc = "Idle"
    /\ item = 1
    /\ result = sqlplus_result
    /\ processes = <<>>
    /\ answer = NoAnswer

Init ==
    /\ db \in Databases
    /\ params \in Tasks
    /\ pc = "Start"
    /\ conn = "none"
    /\ changed = FALSE
    /\ error = None
    /\ plan = <<>>
    /\ pos = 1
    /\ log = <<>>
    /\ db0 = db
    /\ runs = 1
    /\ prev = NoRun
    /\ existing_indexes = <<>>
    /\ SqlplusIdle
    /\ LoaderIdle
    /\ AdminIdle

\* run_module without the finally clause.
Closed_Never(c) == c

\* The finally clause: close the connection if one was opened.
Closed(c) == IF c = "open" THEN "closed" ELSE c

CloseEvents(c) == IF c = "open" THEN <<Event("close", NoStmt, TRUE)>> ELSE <<>>

\* cx_Oracle.connect and connection.cursor.
Connect ==
    /\ pc = "Start"
    /\ pc' = "Inspecting"
    /\ conn' = "open"
    /\ log' = Append(log, Event("connect", NoStmt, TRUE))
    /\ UNCHANGED <<db, params, changed, error, plan, pos, db0, runs, prev, existing_indexes, beside_table>>

\* Inspect failing on a nonexistent table whatever the requested state.
Inspect_FailsOnAbsence ==
    /\ pc = "Inspecting"
    /\ LET exists == db.exists
           mutate == IF params.state = "absent" THEN exists
                     ELSE IF params.state = "modified" THEN exists ELSE TRUE
       IN  /\ IF ~exists
              THEN \* module.fail_json(msg="Table ... does not exist")
                   /\ pc' = "Failed"
                   /\ error' = "fail_json"
                   /\ conn' = Closed(conn)
                   /\ log' = log \o <<Event("table_exists", NoStmt, TRUE)>> \o CloseEvents(conn)
                   /\ UNCHANGED <<changed, plan>>
              ELSE /\ error' = error
                   /\ conn' = conn
                   /\ log' = Append(log, Event("table_exists", NoStmt, TRUE))
                   /\ IF ~mutate
                      THEN pc' = "Finalizing" /\ UNCHANGED <<changed, plan>>
                      ELSE IF params.check_mode
                      THEN pc' = "Finalizing" /\ changed' = TRUE /\ plan' = plan
                      ELSE /\ changed' = changed
                           /\ IF params.state = "absent"
                              THEN pc' = "Applying" /\ plan' = drop_table
                              ELSE IF exists
                              THEN pc' = "Diffing" /\ plan' = plan
                              ELSE pc' = "Creating" /\ plan' = plan
    /\ UNCHANGED <<db, params, pos, db0, runs, prev, existing_indexes, beside_table>>

\* Inspect treating state=modified as state=present: a missing table is
\* created.
Inspect_ModifiedCreates ==
    /\ pc = "Inspecting"
    /\ LET exists == db.exists
           mutate == IF params.state = "absent" THEN exists
                     ELSE TRUE
       IN  /\ IF FALSE
              THEN \* module.fail_json(msg="Table ... does not exist")
                   /\ pc' = "Failed"
                   /\ error' = "fail_json"
                   /\ conn' = Closed(conn)
                   /\ log' = log \o <<Event("table_exists", NoStmt, TRUE)>> \o CloseEvents(conn)
                   /\ UNCHANGED <<changed, plan>>
              ELSE /\ error' = error
                   /\ conn' = conn
                   /\ log' = Append(log, Event("table_exists", NoStmt, TRUE))
                   /\ IF ~mutate
                      THEN pc' = "Finalizing" /\ UNCHANGED <<changed, plan>>
                      ELSE IF params.check_mode
                      THEN pc' = "Finalizing" /\ changed' = TRUE /\ plan' = plan
                      ELSE /\ changed' = changed
                           /\ IF params.state = "absent"
                              THEN pc' = "Applying" /\ plan' = drop_table
                              ELSE IF exists
                              THEN pc' = "Diffing" /\ plan' = plan
                              ELSE pc' = "Creating" /\ plan' = plan
    /\ UNCHANGED <<db, params, pos, db0, runs, prev, existing_indexes, beside_table>>

\* table_exists, and the branch of run_module taken on its answer.
Inspect ==
    /\ pc = "Inspecting"
    /\ LET exists == db.exists
           mutate == IF params.state = "absent" THEN exists
                     ELSE IF params.state = "modified" THEN exists ELSE TRUE
       IN  /\ IF params.state = "modified" /\ ~exists
              THEN \* module.fail_json(msg="Table ... does not exist")
                   /\ pc' = "Failed"
                   /\ error' = "fail_json"
                   /\ conn' = Closed(conn)
                   /\ log' = log \o <<Event("table_exists", NoStmt, TRUE)>> \o CloseEvents(conn)
                   /\ UNCHANGED <<changed, plan>>
              ELSE /\ error' = error
                   /\ conn' = conn
                   /\ log' = Append(log, Event("table_exists", NoStmt, TRUE))
                   /\ IF ~mutate
                      THEN pc' = "Finalizing" /\ UNCHANGED <<changed, plan>>
                      ELSE IF params.check_mode
                      THEN pc' = "Finalizing" /\ changed' = TRUE /\ plan' = plan
                      ELSE /\ changed' = changed
                           /\ IF params.state = "absent"
                              THEN pc' = "Applying" /\ plan' = drop_table
                              ELSE IF exists
                              THEN pc' = "Diffing" /\ plan' = plan
                              ELSE pc' = "Creating" /\ plan' = plan
    /\ UNCHANGED <<db, params, pos, db0, runs, prev, existing_indexes, beside_table>>

\* create_table, up to its first cursor.execute.
Create ==
    /\ pc = "Creating"
    /\ plan' = create_table(params)
    /\ pc' = "Applying"
    /\ UNCHANGED <<db, params, conn, changed, error, pos, log, db0, runs, prev, existing_indexes, beside_table>>

\* The three catalog reads of modify_table; everything it does afterwards is
\* decided by what they return.
Diff ==
    /\ pc = "Diffing"
    /\ \E cols \in FetchOrders(db.columns), cons \in FetchOrders(db.constraints),
          inds \in FetchOrders(db.indexes) :
            /\ existing_indexes' = get_existing_indexes(inds)
            /\ plan' = modify_table(params, get_existing_columns(cols),
                                    get_existing_constraints(cons), existing_indexes')
    /\ log' = log \o <<Event("get_existing_columns", NoStmt, TRUE),
                       Event("get_existing_constraints", NoStmt, TRUE),
                       Event("get_existing_indexes", NoStmt, TRUE)>>
    /\ pc' = "Applying"
    /\ UNCHANGED <<db, params, conn, changed, error, pos, db0, runs, prev, beside_table>>

\* Apply reading the columns of the table again after the statement.
Apply_RereadsCatalog ==
    /\ pc = "Applying"
    /\ pos <= Len(plan)
    /\ plan[pos].verb # "raise"
    /\ ~Rejected(db, plan[pos])
    /\ db' = Execute(db, plan[pos])
    /\ log' = log \o <<Event("execute", plan[pos], TRUE), Event("get_existing_columns", NoStmt, TRUE)>>
    /\ pos' = pos + 1
    /\ UNCHANGED <<params, pc, conn, changed, error, plan, db0, runs, prev, existing_indexes, beside_table>>

\* The next cursor.execute of the branch returns: the statement took effect.
Apply ==
    /\ pc = "Applying"
    /\ pos <= Len(plan)
    /\ plan[pos].verb # "raise"
    /\ ~Rejected(db, plan[pos])
    /\ db' = Execute(db, plan[pos])
    /\ log' = Append(log, Event("execute", plan[pos], TRUE))
    /\ pos' = pos + 1
    /\ UNCHANGED <<params, pc, conn, changed, error, plan, db0, runs, prev, existing_indexes, beside_table>>

\* ApplyFails swallowing the error: the branch goes on with the next statement.
ApplyFails_Continues ==
    /\ pc = "Applying"
    /\ pos <= Len(plan)
    /\ plan[pos].verb # "raise"
    /\ log' = Append(log, Event("execute", plan[pos], FALSE))
    /\ pos' = pos + 1
    /\ UNCHANGED <<db, params, pc, conn, changed, error, plan, db0, runs, prev, existing_indexes, beside_table>>

\* The next cursor.execute of the branch raises cx_Oracle.Error: the except
\* clause calls fail_json, the finally clause closes the connection.
ApplyFails ==
    /\ pc = "Applying"
    /\ pos <= Len(plan)
    /\ plan[pos].verb # "raise"
    /\ log' = log \o <<Event("execute", plan[pos], FALSE)>> \o CloseEvents(conn)
    /\ pc' = "Failed"
    /\ error' = "cx_Oracle.Error"
    /\ conn' = Closed(conn)
    /\ existing_indexes' = <<>>
    /\ UNCHANGED <<db, params, changed, plan, pos, db0, runs, prev, beside_table>>

\* The branch raises a Python exception that run_module does not catch: only
\* the finally clause runs.
Crash ==
    /\ pc = "Applying"
    /\ pos <= Len(plan)
    /\ plan[pos].verb = "raise"
    /\ log' = log \o CloseEvents(conn)
    /\ pc' = "Failed"
    /\ error' = plan[pos].object
    /\ conn' = Closed(conn)
    /\ existing_indexes' = <<>>
    /\ UNCHANGED <<db, params, changed, plan, pos, db0, runs, prev, beside_table>>

\* Applied_ going back to look at the table again instead of finishing.
Applied_Reinspects ==
    /\ pc = "Applying"
    /\ pos > Len(plan)
    /\ changed' = TRUE
    /\ pc' = "Inspecting"
    /\ existing_indexes' = <<>>
    /\ UNCHANGED <<db, params, conn, error, plan, pos, log, db0, runs, prev, beside_table>>

\* The branch returned: result['changed'] = True.
Applied_ ==
    /\ pc = "Applying"
    /\ pos > Len(plan)
    /\ changed' = TRUE
    /\ pc' = "Finalizing"
    /\ existing_indexes' = <<>>
    /\ UNCHANGED <<db, params, conn, error, plan, pos, log, db0, runs, prev, beside_table>>

\* exit_json after the finally clause.
Exit(events) ==
    /\ log' = log \o events \o CloseEvents(conn)
    /\ conn' = Closed(conn)
    /\ pc' = "Done"

\* Finalize without the gather_stats test around the statistics call.
Finalize_AlwaysGathers ==
    /\ pc = "Finalizing"
    /\ IF params.check_mode
       THEN Exit(<<>>)
       ELSE /\ log' = Append(log, Event("commit", NoStmt, TRUE))
            /\ pc' = "GatheringStats"
            /\ conn' = conn
    /\ UNCHANGED <<db, params, changed, error, plan, pos, db0, runs, prev, existing_indexes, beside_table>>

\* Finalize without the check_mode test around the commit.
Finalize_AlwaysCommits ==
    /\ pc = "Finalizing"
    /\ IF params.gather_stats
       THEN /\ log' = Append(log, Event("commit", NoStmt, TRUE))
            /\ pc' = "GatheringStats"
            /\ conn' = conn
       ELSE Exit(<<Event("commit", NoStmt, TRUE)>>)
    /\ UNCHANGED <<db, params, changed, error, plan, pos, db0, runs, prev, existing_indexes, beside_table>>

\* "if not module.check_mode: connection.commit()" and what follows it.
Finalize ==
    /\ pc = "Finalizing"
    /\ IF params.check_mode
       THEN Exit(<<>>)
       ELSE IF params.gather_stats
       THEN /\ log' = Append(log, Event("commit", NoStmt, TRUE))
            /\ pc' = "GatheringStats"
            /\ conn' = conn
       ELSE Exit(<<Event("commit", NoStmt, TRUE)>>)
    /\ UNCHANGED <<db, params, changed, error, plan, pos, db0, runs, prev, existing_indexes, beside_table>>

\* gather_table_stats returns.
GatherStats ==
    /\ pc = "GatheringStats"
    /\ db.exists
    /\ Exit(<<Event("execute", gather_table_stats, TRUE)>>)
    /\ UNCHANGED <<db, params, changed, error, plan, pos, db0, runs, prev, existing_indexes, beside_table>>

\* gather_table_stats raises cx_Oracle.Error.
GatherStatsFails ==
    /\ pc = "GatheringStats"
    /\ log' = log \o <<Event("execute", gather_table_stats, FALSE)>> \o CloseEvents(conn)
    /\ pc' = "Failed"
    /\ error' = "cx_Oracle.Error"
    /\ conn' = Closed(conn)
    /\ UNCHANGED <<db, params, changed, plan, pos, db0, runs, prev, existing_indexes, beside_table>>

\* cx_Oracle.connect raises: there is no connection to close.
ConnectFails ==
    /\ pc = "Start"
    /\ log' = Append(log, Event("connect", NoStmt, FALSE))
    /\ pc' = "Failed"
    /\ error' = "cx_Oracle.Error"
    /\ UNCHANGED <<db, params, conn, changed, plan, pos, db0, runs, prev, existing_indexes, beside_table>>

\* The same task is run again against the database the run left.
Rerun ==
    /\ pc \in {"Done", "Failed"}
    /\ runs < MaxRuns
    /\ prev' = [pc |-> pc, changed |-> changed, executed |-> Len(Applied)]
    /\ runs' = runs + 1
    /\ pc' = "Start"
    /\ conn' = "none"
    /\ changed' = FALSE
    /\ error' = None
    /\ plan' = <<>>
    /\ pos' = 1
    /\ log' = <<>>
    /\ db0' = db
    /\ existing_indexes' = <<>>
    /\ UNCHANGED <<db, params, beside_table>>

Next ==
    \/ Connect
    \/ ConnectFails
    \/ Inspect
    \/ Create
    \/ Diff
    \/ Apply
    \/ ApplyFails
    \/ Crash
    \/ Applied_
    \/ Finalize
    \/ GatherStats
    \/ GatherStatsFails
    \/ Rerun

Spec == Init /\ [][Next]_vars

\* The databases of the runs followed to their end: at most one live
\* constraint, default table properties, column B a VARCHAR2.
FairDatabases == {d \in Databases : Cardinality(d.constraints) <= 1 /\ d.props = NoProps /\ \A r \in d.columns : r.data_type # "NUMBER" \/ r.column_name = "A"}

\* The tasks of the runs followed to their end: no column list, or columns A
\* and B with B not unique.
FairTasks == {t \in Tasks : t.columns.given => (Len(t.columns.list) = 2 /\ t.columns.list[1].name = "A" /\ ~t.columns.list[2].unique)}

FairInit == Init /\ db \in FairDatabases /\ params \in FairTasks

\* run_module is one sequential, synchronous program: as long as it has a
\* next step, it takes it (every call to the database driver returns or
\* raises).
FairSpec == FairInit /\ [][Next]_vars /\ WF_vars(Next)

\* --------------------------------------------------------------------------
\* Properties
\* --------------------------------------------------------------------------
Terminal == {"Done", "Failed"}

\* The schema-changing statements of this run that reached the executor.
Changes == SelectSeq(log, LAMBDA e : e.call = "execute" /\ e.stmt.verb # "GatherStats")

\* The run has asked the catalog whether the table exists.
Inspected == \E i \in DOMAIN log : log[i].call = "table_exists"

\* The run takes the branch that calls modify_table.
ModifyRun == params.state \in {"present", "modified"} /\ db0.exists /\ ~params.check_mode

\* The run takes the branch that calls create_table.
CreateRun == params.state = "present" /\ ~db0.exists /\ ~params.check_mode

\* C1: a second run of the same task, against the database left by a first
\* run that ended in Done, executes no schema-changing statement and, when it
\* ends in Done, reports changed = false.
C1_Idempotence ==
    (runs > 1 /\ prev.pc = "Done" /\ ~params.check_mode)
        => Changes = <<>> /\ (pc = "Done" => changed = FALSE)

\* C2: a run against an existing table for which modify_table has no statement
\* to issue ends in Done with changed = false; changed is true only if at
\* least one statement was synthesized.
C2_NoChangeReportsUnchanged ==
    (ModifyRun /\ pc = "Done" /\ plan = <<>>) => changed = FALSE

\* C3: a run with state=absent against a nonexistent table issues no statement
\* and reports changed = false; against an existing table it issues exactly
\* one statement, the DROP, and reports changed = true once the DROP has been
\* executed (in check mode: changed = true, the DROP is withheld).
C3_AbsentDeterminism ==
    (params.state = "absent" /\ Inspected /\ pc \in Terminal) =>
        IF ~db0.exists
        THEN Changes = <<>> /\ changed = FALSE
        ELSE IF params.check_mode
        THEN Changes = <<>> /\ changed = TRUE
        ELSE /\ Len(Changes) = 1
             /\ Changes[1].stmt.verb = "DropTable"
             /\ changed = Changes[1].ok

\* C3 witness: a finished non-check run has dropped an existing table.
C3_Witness ==
    /\ params.state = "absent" /\ ~params.check_mode /\ db0.exists
    /\ pc = "Done" /\ changed /\ ~db.exists
    /\ Len(Changes) = 1

RECURSIVE ExecuteAll(_, _)
\* The catalog after the successful statements of events, in order.
ExecuteAll(d, events) ==
    IF events = <<>> THEN d
    ELSE ExecuteAll(IF Head(events).ok THEN Execute(d, Head(events).stmt) ELSE d, Tail(events))

\* C4: the statements reach the executor one at a time in the order of their
\* synthesis; only the last one issued can have failed, and then the run is
\* Failed with the database error; the database holds the effect of exactly
\* the statements that succeeded (nothing retried, nothing undone).
C4_StopAtFirstFailure ==
    /\ Len(Changes) <= Len(plan)
    /\ \A i \in DOMAIN Changes :
          /\ Changes[i].stmt = plan[i]
          /\ ~Changes[i].ok =>
                /\ i = Len(Changes)
                /\ pc = "Failed"
                /\ error = "cx_Oracle.Error"
    /\ db = ExecuteAll(db0, Changes)

\* C4 witness: statement k > 1 failed after k-1 statements changed the database.
C4_Witness ==
    /\ pc = "Failed"
    /\ Len(Changes) >= 2
    /\ ~Changes[Len(Changes)].ok
    /\ Len(Changes) < Len(plan)
    /\ db # db0

StmtColumns(stmt) ==
    IF stmt.verb = "AddConstraint" /\ stmt.clause[1] = "CHECK"
    THEN {ConditionColumn[stmt.clause[2]]}
    ELSE Range(stmt.columns)

\* AddConstraint, AddIndex and AddForeignKey.
AddKinds == {"AddConstraint", "CreateIndex", "AddForeignKey"}

\* C6 as stated: every DropColumn comes after all AddIndex, AddForeignKey and
\* AddConstraint statements of the run that do not reference the dropped
\* column.
C6_DropsAfterAdds ==
    \A i, j \in DOMAIN plan :
        (/\ plan[i].verb = "DropColumn"
         /\ plan[j].verb \in AddKinds
         /\ plan[i].object \notin StmtColumns(plan[j])) => j < i

\* C6 amended: every DropColumn comes before every AddIndex, AddForeignKey and
\* AddConstraint statement of the run, whether or not that statement
\* references the dropped column.
C6_DropsBeforeAdds ==
    \A i, j \in DOMAIN plan :
        (plan[i].verb = "DropColumn" /\ plan[j].verb \in AddKinds) => i < j

\* C6 witness: a run drops a column and adds a constraint, index or foreign
\* key that does not reference it.
C6_Witness ==
    /\ pc = "Applying"
    /\ \E i, j \in DOMAIN plan :
          /\ plan[i].verb = "DropColumn"
          /\ plan[j].verb \in AddKinds
          /\ plan[i].object \notin StmtColumns(plan[j])

\* C7: no constraint, index or foreign-key statement that references a column
\* absent from the live table precedes the AddColumn of that column.
C7_AddsBeforeReferences ==
    \A i, j \in DOMAIN plan :
        (/\ plan[j].verb = "AddColumn"
         /\ plan[i].verb \in AddKinds
         /\ plan[j].object \in StmtColumns(plan[i])) => j < i

\* C7 witness: a run adds a column and an index or constraint on it.
C7_Witness ==
    /\ pc = "Applying"
    /\ \E i, j \in DOMAIN plan :
          /\ plan[j].verb = "AddColumn"
          /\ plan[i].verb \in {"CreateIndex", "AddConstraint"}
          /\ plan[j].object \in StmtColumns(plan[i])

\* The phase of modify_table a statement belongs to: 1 column adds and
\* modifies, 2 column drops, 3 constraints, 4 indexes, 5 foreign keys,
\* 6 table properties (0: not a statement of modify_table).
Phase(stmt) ==
    CASE stmt.verb \in {"AddColumn", "ModifyColumn", "SetDefault", "CommentColumn"} -> 1
      [] stmt.verb = "DropColumn" -> 2
      [] stmt.verb = "AddConstraint" -> 3
      [] stmt.verb = "DropConstraint" ->
            IF /\ params.foreign_keys.given
               /\ \E k \in DOMAIN params.foreign_keys.list :
                     params.foreign_keys.list[k].name = stmt.object
            THEN 5 ELSE 3
      [] stmt.verb \in {"CreateIndex", "DropIndex"} -> 4
      [] stmt.verb = "AddForeignKey" -> 5
      [] stmt.verb \in {"MoveTablespace", "Parallel", "Compress", "RowMovement",
                        "CommentTable"} -> 6
      [] OTHER -> 0

\* C8: in a run against an existing table no statement of an earlier phase
\* follows a statement of a later phase.
C8_PhaseOrder ==
    ModifyRun =>
        \A i, j \in DOMAIN plan :
            (i < j /\ plan[j].verb # "raise") => Phase(plan[i]) <= Phase(plan[j])

\* C8 witness: a run against an existing table has statements of at least four
\* phases, a column drop among them.
C8_Witness ==
    /\ ModifyRun /\ pc = "Applying"
    /\ Cardinality({Phase(plan[i]) : i \in DOMAIN plan}) >= 4
    /\ \E i \in DOMAIN plan : Phase(plan[i]) = 2

\* The catalog reads of modify_table have returned.
Diffed == \E i \in DOMAIN log : log[i].call = "get_existing_indexes"

\* The live columns as get_existing_columns returns them.
ExistingColumnItems ==
    Range(get_existing_columns(CHOOSE s \in FetchOrders(db0.columns) : TRUE))

\* The desired columns in the shape of the items of get_existing_columns.
DesiredColumnItems ==
    {[key |-> c.name,
      value |-> [type |-> c.type, nullable |-> c.nullable, default |-> c.default,
                 comment |-> c.comment]] : c \in Range(params.columns.list)}

\* The column statements of modify_table.
ColumnChanges == SelectSeq(plan, LAMBDA t : Phase(t) \in {1, 2})

\* C9: when the desired columns are the live columns plus one new column the
\* column statements are exactly one AddColumn, of that column; when they are
\* the live columns minus one column, exactly one DropColumn, of that column.
C9_ColumnSymmetry ==
    (ModifyRun /\ Diffed /\ params.columns.given) =>
        /\ \A n \in DesiredColumnItems :
              (/\ n.key \notin {e.key : e \in ExistingColumnItems}
               /\ DesiredColumnItems = ExistingColumnItems \cup {n})
              => /\ Len(ColumnChanges) = 1
                 /\ ColumnChanges[1].verb = "AddColumn"
                 /\ ColumnChanges[1].object = n.key
        /\ \A o \in ExistingColumnItems :
              (/\ o.key \notin {e.key : e \in DesiredColumnItems}
               /\ DesiredColumnItems = ExistingColumnItems \ {o})
              => /\ Len(ColumnChanges) = 1
                 /\ ColumnChanges[1].verb = "DropColumn"
                 /\ ColumnChanges[1].object = o.key

\* C9 witness: the desired columns are the live VARCHAR2 column plus a new one.
C9_Witness ==
    /\ ModifyRun /\ Diffed /\ params.columns.given
    /\ \E n \in DesiredColumnItems :
          /\ n.key \notin {e.key : e \in ExistingColumnItems}
          /\ DesiredColumnItems = ExistingColumnItems \cup {n}
          /\ \E e \in ExistingColumnItems : e.value.type[1] = "VARCHAR2"

\* Diffing the task against the catalog d yields no statement, whatever the
\* order in which the catalog rows are fetched.
DiffEquivalent(d) ==
    /\ d.exists
    /\ \A cols \in FetchOrders(d.columns), cons \in FetchOrders(d.constraints),
          inds \in FetchOrders(d.indexes) :
            modify_table(params, get_existing_columns(cols),
                         get_existing_constraints(cons), get_existing_indexes(inds)) = <<>>

\* C10: a state=present run with a column list against a nonexistent table
\* that meets no database error ends in Done, and the catalog it leaves is
\* diff-equivalent to the task.
C10_CreateRoundTrip ==
    (CreateRun /\ params.columns.given /\ pc \in Terminal /\ error # "cx_Oracle.Error")
        => pc = "Done" /\ DiffEquivalent(db)

\* The statement modify_table has for each table property, by the parameter
\* that asks for it.
PropertyVerb ==
    [tablespace |-> "MoveTablespace", parallel |-> "Parallel", compress |-> "Compress",
     row_movement |-> "RowMovement", comment |-> "CommentTable"]

DesiredConstraintRows ==
    UNION {   (IF c.primary_key
               THEN {ConsRow("pk_" \o table_name, "P", c.name, None, None)} ELSE {})
         \cup (IF c.unique
               THEN {ConsRow("uk_" \o table_name \o "_" \o c.name, "U", c.name, None, None)}
               ELSE {})
         \cup (IF Truthy(c.check)
               THEN {ConsRow("ck_" \o table_name \o "_" \o c.name, "C", c.name, c.check, None)}
               ELSE {})
        : c \in Range(params.columns.list)}

\* modify_table has a DROP CONSTRAINT of this name in its constraint section.
DropsConstraint(name) ==
    \E i \in DOMAIN plan :
        plan[i] = Stmt("DropConstraint", name, <<>>, <<>>) /\ Phase(plan[i]) = 3

\* C12: in a run against an existing table a live primary-key, unique or check
\* constraint is dropped exactly when no desired constraint has its name,
\* type, column and condition.
C12_ConstraintDropRule ==
    (ModifyRun /\ Diffed /\ params.columns.given) =>
        \A r \in db0.constraints :
            r.constraint_type \in {"P", "U", "C"} =>
                (DropsConstraint(r.constraint_name) <=> r \notin DesiredConstraintRows)

\* C13: when a desired constraint differs from the live constraint of its
\* name, the run has a DropConstraint of that name followed by an
\* AddConstraint with the desired definition.
C13_DropThenAdd ==
    (ModifyRun /\ Diffed /\ params.columns.given) =>
        \A r \in db0.constraints, d \in DesiredConstraintRows :
            (/\ r.constraint_name = d.constraint_name
             /\ r # d
             /\ \A e \in DesiredConstraintRows : e.constraint_name = d.constraint_name => e = d)
            => \E i, j \in DOMAIN plan :
                  /\ i < j
                  /\ plan[i] = Stmt("DropConstraint", r.constraint_name, <<>>, <<>>)
                  /\ plan[j].verb = "AddConstraint"
                  /\ plan[j].object = d.constraint_name
                  /\ plan[j].clause = (IF d.constraint_type = "C"
                                       THEN <<"CHECK", d.search_condition>>
                                       ELSE <<ConstraintTypeName(d.constraint_type)>>)
                  /\ d.constraint_type # "C" => plan[j].columns = <<d.column_name>>

\* The index statements of modify_table.
IndexChanges == SelectSeq(plan, LAMBDA t : Phase(t) = 4)

\* The places of a statement among the index statements.
IndexChangesAt(stmt) == {i \in DOMAIN IndexChanges : IndexChanges[i] = stmt}

\* modify_table has read the catalog and reaches its index section.
ReachesIndexes ==
    /\ ModifyRun /\ pc = "Applying"
    /\ params.columns.given /\ params.indexes.given
    /\ \A i \in DOMAIN plan : plan[i] # Raise("KeyError")

ReachesForeignKeys ==
    /\ ModifyRun /\ Diffed
    /\ params.columns.given /\ params.indexes.given /\ params.foreign_keys.given
    /\ \A i \in DOMAIN plan : plan[i] # Raise("KeyError")

\* C15: for each desired foreign key a run against an existing table has
\* exactly one AddForeignKey; if no live constraint has the name of the
\* foreign key there is no drop of that name, otherwise a DropConstraint of
\* that name comes immediately before the AddForeignKey, whether or not the
\* definition differs.
C15_ForeignKeyRule ==
    ReachesForeignKeys =>
        \A fk \in Range(params.foreign_keys.list) :
            LET adds  == {i \in DOMAIN plan : plan[i] = AddForeignKeyStmt(fk)}
                named == {i \in DOMAIN plan :
                            plan[i].verb = "AddForeignKey" /\ plan[i].object = fk.name}
                drops == {i \in DOMAIN plan :
                            plan[i] = Stmt("DropConstraint", fk.name, <<>>, <<>>)}
            IN  /\ named = adds
                /\ Cardinality(adds) = 1
                /\ IF fk.name \notin LiveConstraintNames(db0)
                   THEN drops = {}
                   ELSE \E i \in DOMAIN plan : drops = {i} /\ adds = {i + 1}

\* C15 witness: the run has dropped the live foreign key that has the name of
\* a desired one and created it again.
C15_Witness ==
    /\ ReachesForeignKeys
    /\ \E fk \in Range(params.foreign_keys.list) :
          /\ fk.name \in LiveConstraintNames(db0)
          /\ \E i \in DOMAIN Applied :
                /\ i + 1 \in DOMAIN Applied
                /\ Applied[i].stmt = Stmt("DropConstraint", fk.name, <<>>, <<>>)
                /\ Applied[i + 1].stmt = AddForeignKeyStmt(fk)

\* The desired specification is malformed: a foreign key whose local and
\* referenced column lists differ in length, an index on a column that is not
\* in the column list, or partitioning with an empty partition-key list.
Malformed ==
    \/ /\ params.foreign_keys.given
       /\ \E fk \in Range(params.foreign_keys.list) :
             Len(fk.columns) # Len(fk.reference_columns)
    \/ /\ params.indexes.given /\ params.columns.given
       /\ \E x \in Range(params.indexes.list) :
             \E c \in Range(x.columns) : c \notin DesiredColumnNames(params)
    \/ /\ params.partitioning # None
       /\ PartitionColumns[params.partitioning] = <<>>

\* C16: a run with a malformed desired specification never touches the
\* database (no connection, no catalog read, no statement) and ends in Failed
\* with a ValidationError.
C16_MalformedRejected ==
    Malformed =>
        /\ conn = "none"
        /\ log = <<>>
        /\ pc \in {"Start", "Failed"}
        /\ pc = "Failed" => error = "ValidationError"

\* C17: a run with partitioning given against an existing table executes no
\* schema-changing statement and ends in Failed with UnsupportedOperation.
C17_PartitioningUnsupported ==
    (params.partitioning # None /\ db0.exists /\ params.state \in {"present", "modified"})
        => /\ Changes = <<>>
           /\ (pc \in Terminal /\ Inspected) => (pc = "Failed" /\ error = "UnsupportedOperation")

\* The task flags more than one column as primary key.
MultiplePrimaryKeys ==
    /\ params.columns.given
    /\ Cardinality({i \in DOMAIN params.columns.list : params.columns.list[i].primary_key}) > 1

\* C18: a run (create path or modify path) whose task flags more than one
\* column as primary key executes no schema-changing statement and ends in
\* Failed with UnsupportedOperation.
C18_MultiplePrimaryKeysRejected ==
    (MultiplePrimaryKeys /\ params.state \in {"present", "modified"} /\ ~params.check_mode)
        => /\ Changes = <<>>
           /\ (pc \in Terminal /\ Inspected) => (pc = "Failed" /\ error = "UnsupportedOperation")

\* C19 as stated: whatever the requested state, the inspection of a
\* nonexistent table does not end the run in Failed.
C19_AbsenceNeverFails ==
    [][(pc = "Inspecting" /\ ~db.exists) => pc' # "Failed"]_vars

\* C19 amended: the inspection of a nonexistent table ends the run in Failed
\* exactly when the requested state is modified (fail_json, the table does not
\* exist); for present and absent it does not, and the inspection of an
\* existing table never does. Outside check mode a state=present run goes to
\* Creating on absence and to Diffing on presence, a state=modified run to
\* Diffing on presence.
C19_AbsenceFailsOnlyModified ==
    [][pc = "Inspecting" =>
        /\ ~db.exists => (pc' = "Failed" <=> params.state = "modified")
        /\ (~db.exists /\ pc' = "Failed") => error' = "fail_json"
        /\ db.exists => pc' # "Failed"
        /\ (params.state = "present" /\ ~params.check_mode)
              => pc' = (IF db.exists THEN "Diffing" ELSE "Creating")
        /\ (params.state = "modified" /\ ~params.check_mode /\ db.exists)
              => pc' = "Diffing"]_vars

\* C19 witness: the inspection found no table and the run went on to create it.
C19_Witness ==
    /\ Inspected /\ ~db0.exists
    /\ params.state = "present"
    /\ pc = "Creating"

\* The keyword arguments of module.fail_json in the except clause: msg, the
\* text of the database error, and the items of result, which are changed and
\* the table dict, still empty.
fail_json_kwargs == [msg |-> "str(error)", changed |-> changed, table |-> <<>>]

\* C20: when a statement fails during Applying, the error returned to the
\* caller carries the text of the database error, names the failing statement
\* and lists exactly the statements applied before it.
C20_FailureReport ==
    (pc = "Failed" /\ error = "cx_Oracle.Error" /\ Changes # <<>>
     /\ ~Changes[Len(Changes)].ok) =>
        LET others == DOMAIN fail_json_kwargs \ {"msg", "changed", "table"}
        IN  /\ fail_json_kwargs.msg = "str(error)"
            /\ \E k \in others : fail_json_kwargs[k] = Changes[Len(Changes)].stmt
            /\ \E k \in others : fail_json_kwargs[k] = [i \in DOMAIN Applied |-> Applied[i].stmt]

\* ==========================================================================
\* The oracle_sqlplus module (plugins/modules/oracle_sqlplus.py)
\* ==========================================================================
\* --------------------------------------------------------------------------
\* Bounds
\* --------------------------------------------------------------------------
\* Longest params['loop'].
MaxLoop == 2

\* --------------------------------------------------------------------------
\* The file system and the SQL*Plus program
\* --------------------------------------------------------------------------
\* The SQL files that exist on the host.
Files == {"a.sql"}

\* open(script).read()
FileContent(script) == "SELECT &1 FROM DUAL;"

\* What a SQL*Plus process may write to its standard output, stripped.
Stdouts == {<<"Script 1 executed">>, <<"Raw SQL executed">>, <<"SELECT * FROM T", "X", "Y", "2 rows selected.", "DELETE FROM T", "1 row deleted.">>, <<"">>}

\* What a failing SQL*Plus process may write to its standard error, stripped.
Stderrs == {"ORA-00942: table or view does not exist", ""}

\* --------------------------------------------------------------------------
\* module.params
\* --------------------------------------------------------------------------
\* The entries of params['loop']: dicts that override parameters.
LoopItems == {<<[key |-> "script", value |-> "a.sql"]>>, <<[key |-> "raw_sql", value |-> "DELETE FROM T"]>>, <<[key |-> "script", value |-> "missing.sql"]>>, <<>>}

RECURSIVE Lists(_, _)
\* The lists of at most n elements of S.
Lists(S, n) == IF n = 0 THEN {<<>>} ELSE {<<>>} \cup {<<x>> \o l : x \in S, l \in Lists(S, n - 1)}

\* The parameters that say what to run.
SqlplusSources == [script : {None, "a.sql", "missing.sql"}, raw_sql : {None, "SELECT * FROM T WHERE ID = :id"}, loop : Lists(LoopItems, MaxLoop)]

\* The defaults of the argument_spec for the remaining parameters.
SqlplusDefaults == [username |-> None, password |-> None, database |-> None, substitution_variables |-> <<>>, bind_variables |-> <<>>, env_variables |-> <<>>, sysdba |-> FALSE, sysoper |-> FALSE, silent |-> FALSE, nolog |-> FALSE, suppress_login |-> FALSE, markup_mode |-> None, restrict |-> FALSE, page_size |-> 1000]

\* The remaining parameters, as the tasks give them.
SqlplusOptions ==
    { SqlplusDefaults,
      [SqlplusDefaults EXCEPT !.username = "scott", !.password = "tiger", !.database = "orcl", !.silent = TRUE, !.page_size = 2, !.bind_variables = <<[key |-> "id", value |-> "1"]>>],
      [SqlplusDefaults EXCEPT !.sysdba = TRUE, !.nolog = TRUE, !.suppress_login = TRUE, !.markup_mode = "HTML", !.restrict = TRUE, !.substitution_variables = <<"DUMMY">>, !.env_variables = <<[key |-> "ORACLE_SID", value |-> "orcl"]>>],
      [SqlplusDefaults EXCEPT !.username = "scott", !.sysoper = TRUE] }

\* The tasks the oracle_sqlplus module is invoked with.
SqlplusTasks == {src @@ opt : src \in SqlplusSources, opt \in SqlplusOptions}

\* temp_params = module.params.copy(); temp_params.update(item)
UpdateParams(p, update) == [k \in DOMAIN p |-> IF k \in Keys(update) THEN Get(update, k) ELSE p[k]]

\* --------------------------------------------------------------------------
\* validate_input
\* --------------------------------------------------------------------------
\* validate_input without the check that script and raw_sql exclude each
\* other.
validate_input_AllowsBoth(p) ==
    IF ~Truthy(p.script) /\ ~Truthy(p.raw_sql) /\ p.loop = <<>>
    THEN "Either 'script', 'raw_sql', or 'loop' must be specified"
    ELSE IF Truthy(p.script) /\ p.script \notin Files
    THEN "SQL file " \o p.script \o " not found"
    ELSE None

\* The message of the fail_json call of validate_input, None when it returns.
validate_input(p) ==
    IF ~Truthy(p.script) /\ ~Truthy(p.raw_sql) /\ p.loop = <<>>
    THEN "Either 'script', 'raw_sql', or 'loop' must be specified"
    ELSE IF Truthy(p.script) /\ Truthy(p.raw_sql)
    THEN "Specify either 'script' or 'raw_sql', not both"
    ELSE IF Truthy(p.script) /\ p.script \notin Files
    THEN "SQL file " \o p.script \o " not found"
    ELSE None

\* --------------------------------------------------------------------------
\* execute_sqlplus
\* --------------------------------------------------------------------------
\* The text sent to SQL*Plus: the script or raw SQL, the values put in place
\* of &1, &2, ... and the quoted values put in place of the bind variables.
SqlScript(text, substituted, bound) == [text |-> text, substituted |-> substituted, bound |-> bound]

\* sql_script before the replacements.
sql_source(p) == IF Truthy(p.script) THEN FileContent(p.script) ELSE p.raw_sql

\* sql_script after the replacements.
sql_script(p) == SqlScript(sql_source(p), p.substitution_variables, IF Truthy(p.raw_sql) THEN p.bind_variables ELSE <<>>)

\* The exception execute_sqlplus raises before it starts a process, None if
\* it starts one.
RaisedBeforePopen(p) ==
    IF Truthy(p.script) /\ p.script \notin Files THEN "FileNotFoundError"
    ELSE IF sql_source(p) = None /\ p.substitution_variables # <<>> THEN "AttributeError"
    ELSE None

\* The exception raised between Popen and communicate: sql_script.encode()
\* on None.
RaisedAfterPopen(p) == IF sql_source(p) = None THEN "AttributeError" ELSE None

\* The connect string, the last argument of the command.
conn_str(p) ==
    IF Truthy(p.username) /\ Truthy(p.password) /\ Truthy(p.database)
    THEN p.username \o "/" \o p.password \o "@" \o p.database
    ELSE IF p.sysdba THEN "/ as sysdba" ELSE IF p.sysoper THEN "/ as sysoper" ELSE ""

\* The argument vector of the SQL*Plus process.
sqlplus_cmd(p) ==
    <<"sqlplus">>
    \o (IF p.silent THEN <<"-S">> ELSE <<>>)
    \o (IF p.nolog THEN <<"/NOLOG">> ELSE <<>>)
    \o (IF p.suppress_login THEN <<"-s">> ELSE <<>>)
    \o (IF Truthy(p.markup_mode) THEN <<"-M", p.markup_mode>> ELSE <<>>)
    \o (IF p.restrict THEN <<"-R">> ELSE <<>>)
    \o <<conn_str(p)>>

\* One started process: what it was given and what it answered.
Process(p, i, communicated, returncode, stdout, stderr) ==
    [cmd |-> sqlplus_cmd(p), env |-> p.env_variables, input |-> sql_script(p), item |-> i,
     communicated |-> communicated, returncode |-> returncode, stdout |-> stdout, stderr |-> stderr]

\* --------------------------------------------------------------------------
\* parse_sqlplus_output
\* --------------------------------------------------------------------------
\* line.strip().upper().startswith(("SELECT", "INSERT", "UPDATE", "DELETE", "MERGE"))
IsStatement(line) == line \in {"SELECT * FROM T", "DELETE FROM T"}

\* "rows selected" in line.lower() or "rows affected" in line.lower()
IsRowCount(line) == line \in {"2 rows selected."}

\* int(re.search(r'(\d+) rows', line).group(1))
RowsOf(line) == IF line = "2 rows selected." THEN 2 ELSE 0

\* One entry of result['results'].
Parsed(statement, output, rows_affected) == [statement |-> statement, output |-> output, rows_affected |-> rows_affected]

\* The loop body of parse_sqlplus_output on one line.
ParseLine(st, line, page_size) ==
    LET flushed == IF IsStatement(line) /\ st.current_statement # ""
                   THEN Append(st.results, Parsed(st.current_statement, st.current_output, st.rows_affected))
                   ELSE st.results
        statement == IF IsStatement(line) THEN line ELSE st.current_statement
        output == IF IsStatement(line) THEN <<>>
                  ELSE IF IsRowCount(line) THEN st.current_output
                  ELSE Append(st.current_output, line)
        rows == IF IsStatement(line) THEN 0
                ELSE IF IsRowCount(line) THEN RowsOf(line)
                ELSE st.rows_affected
    IN  IF Len(output) >= page_size
        THEN [results |-> Append(flushed, Parsed(statement, SubSeq(output, 1, page_size), rows)),
              current_statement |-> statement,
              current_output |-> SubSeq(output, page_size + 1, Len(output)),
              rows_affected |-> rows]
        ELSE [results |-> flushed, current_statement |-> statement, current_output |-> output, rows_affected |-> rows]

RECURSIVE ParseLines(_, _, _)
\* The for loop of parse_sqlplus_output.
ParseLines(st, lines, page_size) == IF lines = <<>> THEN st ELSE ParseLines(ParseLine(st, Head(lines), page_size), Tail(lines), page_size)

parse_sqlplus_output(output, page_size) ==
    LET st == ParseLines([results |-> <<>>, current_statement |-> "", current_output |-> <<>>, rows_affected |-> 0], output, page_size)
    IN  IF st.current_statement # ""
        THEN Append(st.results, Parsed(st.current_statement, st.current_output, st.rows_affected))
        ELSE st.results

\* --------------------------------------------------------------------------
\* run_module
\* --------------------------------------------------------------------------
\* module.fail_json(msg=...) with the given keyword arguments.
FailJson(msg, kwargs) == [failed |-> TRUE, msg |-> msg, kwargs |-> kwargs]

\* module.exit_json(**kwargs)
ExitJson(kwargs) == [failed |-> FALSE, msg |-> <<>>, kwargs |-> kwargs]

\* The parameters execute_sqlplus is called with: the module's, or inside the
\* loop those of temp_module.
CurrentParams == IF sqlplus_params.loop # <<>> THEN UpdateParams(sqlplus_params, sqlplus_params.loop[item]) ELSE sqlplus_params

\* Where run_module goes after a call of execute_sqlplus returned.
AfterExecute == IF sqlplus_params.loop # <<>> /\ item < Len(sqlplus_params.loop) THEN "execute" ELSE "exit"

SqlplusInit ==
    /\ sqlplus_params \in SqlplusTasks
    /\ sqlplus_pc = "validate"
    /\ item = 1
    /\ result = sqlplus_result
    /\ processes = <<>>
    /\ answer = NoAnswer
    /\ TableIdle
    /\ LoaderIdle
    /\ AdminIdle

\* validate_input(module): fail_json ends the module.
Validate ==
    /\ sqlplus_pc = "validate"
    /\ IF validate_input(sqlplus_params) # None
       THEN /\ sqlplus_pc' = "Failed"
            /\ answer' = FailJson(<<validate_input(sqlplus_params)>>, <<>>)
       ELSE /\ sqlplus_pc' = "execute"
            /\ UNCHANGED answer
    /\ UNCHANGED <<sqlplus_params, item, result, processes, beside_sqlplus>>

\* execute_sqlplus when the process exits with status 0.
ExecuteSucceeds ==
    /\ sqlplus_pc = "execute"
    /\ RaisedBeforePopen(CurrentParams) = None
    /\ RaisedAfterPopen(CurrentParams) = None
    /\ \E stdout \in Stdouts :
        /\ processes' = Append(processes, Process(CurrentParams, item, TRUE, 0, stdout, ""))
        /\ result' = [result EXCEPT !.sqlplus_output = stdout,
                                    !.changed = TRUE,
                                    !.results = @ \o parse_sqlplus_output(stdout, CurrentParams.page_size)]
    /\ sqlplus_pc' = AfterExecute
    /\ item' = IF AfterExecute = "execute" THEN item + 1 ELSE item
    /\ UNCHANGED <<sqlplus_params, answer, beside_sqlplus>>

\* execute_sqlplus with a fail_json that returns: the failure is recorded and
\* the loop goes on with the next item.
ExecuteFails_NextItem ==
    /\ sqlplus_pc = "execute"
    /\ RaisedBeforePopen(CurrentParams) = None
    /\ RaisedAfterPopen(CurrentParams) = None
    /\ \E stderr \in Stderrs, stdout \in {<<"">>, <<"Script 1 executed">>} :
        /\ processes' = Append(processes, Process(CurrentParams, item, TRUE, 1, stdout, stderr))
        /\ answer' = FailJson(<<"SQL*Plus execution failed: ", stderr>>, <<>>)
    /\ sqlplus_pc' = (IF AfterExecute = "execute" THEN "execute" ELSE "Failed")
    /\ item' = IF AfterExecute = "execute" THEN item + 1 ELSE item
    /\ UNCHANGED <<sqlplus_params, result, beside_sqlplus>>

\* execute_sqlplus without the check of the exit status.
ExecuteFails_Ignored ==
    /\ sqlplus_pc = "execute"
    /\ RaisedBeforePopen(CurrentParams) = None
    /\ RaisedAfterPopen(CurrentParams) = None
    /\ \E stderr \in Stderrs, stdout \in {<<"">>, <<"Script 1 executed">>} :
        /\ processes' = Append(processes, Process(CurrentParams, item, TRUE, 1, stdout, stderr))
        /\ result' = [result EXCEPT !.sqlplus_output = stdout,
                                    !.changed = TRUE,
                                    !.results = @ \o parse_sqlplus_output(stdout, CurrentParams.page_size)]
    /\ sqlplus_pc' = AfterExecute
    /\ item' = IF AfterExecute = "execute" THEN item + 1 ELSE item
    /\ UNCHANGED <<sqlplus_params, answer, beside_sqlplus>>

\* execute_sqlplus when the process exits with another status: fail_json ends
\* the module.
ExecuteFails ==
    /\ sqlplus_pc = "execute"
    /\ RaisedBeforePopen(CurrentParams) = None
    /\ RaisedAfterPopen(CurrentParams) = None
    /\ \E stderr \in Stderrs, stdout \in {<<"">>, <<"Script 1 executed">>} :
        /\ processes' = Append(processes, Process(CurrentParams, item, TRUE, 1, stdout, stderr))
        /\ answer' = FailJson(<<"SQL*Plus execution failed: ", stderr>>, <<>>)
    /\ sqlplus_pc' = "Failed"
    /\ UNCHANGED <<sqlplus_params, item, result, beside_sqlplus>>

\* execute_sqlplus raises: the except clause of run_module reports it with
\* the result so far.
ExecuteRaises ==
    /\ sqlplus_pc = "execute"
    /\ \E exc \in {"FileNotFoundError", "AttributeError", "OSError"} :
        /\ \/ exc = RaisedBeforePopen(CurrentParams) /\ UNCHANGED processes
           \/ /\ RaisedBeforePopen(CurrentParams) = None
              /\ exc = "OSError"
              /\ UNCHANGED processes
           \/ /\ RaisedBeforePopen(CurrentParams) = None
              /\ exc = RaisedAfterPopen(CurrentParams)
              /\ processes' = Append(processes, Process(CurrentParams, item, FALSE, 0, <<"">>, ""))
        /\ answer' = FailJson(<<"An unexpected error occurred: ", exc>>, <<result>>)
    /\ sqlplus_pc' = "Failed"
    /\ UNCHANGED <<sqlplus_params, item, result, beside_sqlplus>>

\* result['message'] = ...; module.exit_json(**result)
SqlplusExit ==
    /\ sqlplus_pc = "exit"
    /\ result' = [result EXCEPT !.message = "SQL execution completed successfully"]
    /\ answer' = ExitJson(<<result'>>)
    /\ sqlplus_pc' = "Done"
    /\ UNCHANGED <<sqlplus_params, item, processes, beside_sqlplus>>

SqlplusNext ==
    \/ Validate
    \/ ExecuteSucceeds
    \/ ExecuteFails
    \/ ExecuteRaises
    \/ SqlplusExit

SqlplusSpec == SqlplusInit /\ [][SqlplusNext]_vars

\* --------------------------------------------------------------------------
\* Properties of oracle_sqlplus
\* --------------------------------------------------------------------------
\* The run of oracle_sqlplus is past its input validation.
Validated == sqlplus_pc \in {"execute", "exit", "Done", "Failed"}

\* The module ended with fail_json(msg=msg) before starting any process.
RejectedWith(msg) == sqlplus_pc = "Failed" /\ answer.failed /\ answer.msg = <<msg>> /\ processes = <<>>

\* C21: a task that gives none of script, raw_sql and loop fails with the
\* message "Either 'script', 'raw_sql', or 'loop' must be specified", and a
\* task that gives both script and raw_sql fails with the message "Specify
\* either 'script' or 'raw_sql', not both"; in both cases no SQL*Plus process
\* is started.
C21_InputValidation ==
    Validated =>
        /\ (sqlplus_params.script = None /\ sqlplus_params.raw_sql = None /\ sqlplus_params.loop = <<>>)
              => RejectedWith("Either 'script', 'raw_sql', or 'loop' must be specified")
        /\ (sqlplus_params.script # None /\ sqlplus_params.raw_sql # None)
              => RejectedWith("Specify either 'script' or 'raw_sql', not both")

\* A task with neither script, raw_sql nor loop was rejected.
C21_Witness ==
    /\ Validated
    /\ sqlplus_params.script = None /\ sqlplus_params.raw_sql = None /\ sqlplus_params.loop = <<>>
    /\ sqlplus_pc = "Failed"

\* The processes that exited with a non-zero status.
FailedProcesses == {i \in DOMAIN processes : processes[i].communicated /\ processes[i].returncode # 0}

\* The answer of the module reports changed=true with the success message.
ReportsSuccess == \E i \in DOMAIN answer.kwargs : answer.kwargs[i].changed /\ answer.kwargs[i].message = "SQL execution completed successfully"

\* C22: once a SQL*Plus process exited with a non-zero status, the module has
\* ended in failure with a message made of 'SQL*Plus execution failed' and
\* the standard error of that process, and its answer does not report
\* changed=true with the success message.
C22_NonZeroExitFails ==
    \A i \in FailedProcesses :
        /\ sqlplus_pc = "Failed"
        /\ answer.failed
        /\ answer.msg = <<"SQL*Plus execution failed: ", processes[i].stderr>>
        /\ ~ReportsSuccess

\* The second process of a loop failed after the first had succeeded.
C22_Witness == Len(processes) = 2 /\ 2 \in FailedProcesses /\ result.changed /\ processes[2].stderr # ""

\* part in text, for texts kept as their lines: the lines of part are
\* consecutive lines of text; the empty text is in every text.
Contains(text, part) == part = <<"">> \/ \E k \in 0..(Len(text) - Len(part)) : SubSeq(text, k + 1, k + Len(part)) = part

\* Every item of the loop was executed once, in list order: the i-th process
\* ran the i-th item.
EachItemOnce ==
    /\ Len(processes) = Len(sqlplus_params.loop)
    /\ \A i \in DOMAIN processes :
        /\ processes[i].item = i
        /\ processes[i].communicated
        /\ processes[i].input = sql_script(UpdateParams(sqlplus_params, sqlplus_params.loop[i]))

\* C23: when a run with a loop ends in success, every item was executed
\* exactly once in list order, and the returned sqlplus_output contains the
\* output of every item, with changed=true.
C23_LoopOutputs ==
    (sqlplus_pc = "Done" /\ sqlplus_params.loop # <<>>) =>
        /\ EachItemOnce
        /\ answer.kwargs[1].changed
        /\ \A i \in DOMAIN processes : Contains(answer.kwargs[1].sqlplus_output, processes[i].stdout)

\* --------------------------------------------------------------------------
\* Further properties of oraclesql_table
\* --------------------------------------------------------------------------
\* The statements of this run handed to cursor.execute, in order, whether the
\* database accepted them or not.
Issued == SelectSeq(log, LAMBDA e : e.call = "execute")

\* The columns of the live index of the given name, as the run found it.
LiveIndexColumns(name) == {r.column_name : r \in {x \in db0.indexes : x.index_name = name}}

\* C24: no DROP COLUMN of a column is issued before the DROP INDEX of a live
\* index that includes this column (the index being removed, or replaced by
\* a DROP INDEX and a CREATE INDEX, in this run).
C24_IndexDroppedBeforeColumn ==
    \A i, j \in DOMAIN Issued :
        (i < j /\ Issued[i].stmt.verb = "DropColumn" /\ Issued[j].stmt.verb = "DropIndex")
            => Issued[i].stmt.object \notin LiveIndexColumns(Issued[j].stmt.object)

\* C25: a run with state=absent issues at most the one DROP TABLE statement:
\* no statement of the column, constraint or index diff and no statistics
\* refresh, even when gather_stats is requested, whether or not the table
\* existed.
C25_AbsentOnlyDrops ==
    params.state = "absent" =>
        /\ Len(Issued) <= 1
        /\ \A i \in DOMAIN Issued : Issued[i].stmt = drop_table[1]

\* The places in the log of the calls of gather_table_stats.
StatsCalls == {i \in DOMAIN log : log[i].call = "execute" /\ log[i].stmt = gather_table_stats}

\* The statistics call is made at most once, only when gather_stats is set,
\* only outside check mode, and only after every statement of the run was
\* accepted by the database.
StatsCallRule ==
    /\ Cardinality(StatsCalls) <= 1
    /\ StatsCalls # {} => (params.gather_stats /\ ~params.check_mode)
    /\ \A i \in StatsCalls : \A j \in 1..(i - 1) : log[j].ok

\* C26 as stated: the statistics call is made at most once per run, only when
\* requested, only after every schema statement succeeded, never in check
\* mode and never on a run that ends in Failed.
C26_StatsNeverOnFailedRun ==
    /\ StatsCallRule
    /\ pc = "Failed" => StatsCalls = {}

\* C26 amended: the statistics call is made at most once per run, only when
\* requested, only after every schema statement succeeded and never in check
\* mode; it is the last call before the connection is closed, and a run that
\* made it ends in Failed only when the statistics call itself failed.
C26_StatsOnlyAfterSuccess ==
    /\ StatsCallRule
    /\ \A i \in StatsCalls : \A j \in (i + 1)..Len(log) : log[j].call = "close"
    /\ \A i \in StatsCalls : (pc = "Failed" <=> ~log[i].ok)

\* The statistics were gathered after a run that executed schema statements.
C26_Witness == pc = "Done" /\ StatsCalls # {} /\ Len(Changes) >= 2

\* The place of a state in Start, Inspecting, {Creating | Diffing}, Applying,
\* Finalizing (the statistics call is its second half), {Done | Failed}.
Rank(state) ==
    CASE state = "Start" -> 0
      [] state = "Inspecting" -> 1
      [] state \in {"Creating", "Diffing"} -> 2
      [] state = "Applying" -> 3
      [] state = "Finalizing" -> 4
      [] state = "GatheringStats" -> 5
      [] state \in Terminal -> 6

\* C27: a run moves only forward along Start, Inspecting, Creating or
\* Diffing, Applying, Finalizing, Done, or diverts to Failed; it eventually
\* reaches a terminal state, and once there it stays there and executes
\* nothing: the only step left is the start of another run.
C27_RunTerminates ==
    /\ [][(pc \notin Terminal) => (pc' = pc \/ Rank(pc') > Rank(pc))]_vars
    /\ [][(pc \in Terminal) => (pc' = "Start" /\ runs' = runs + 1 /\ log' = <<>> /\ db' = db)]_vars
    /\ [][(pc \in {"Creating", "Diffing"}) => pc' = "Applying"]_vars
    /\ \A r \in 1..MaxRuns : (runs = r /\ pc \notin Terminal) ~> (runs = r /\ pc \in Terminal)

\* A run went through Diffing and Applying, executed statements and is Done.
C27_Witness == pc = "Done" /\ Diffed /\ Len(Changes) >= 2 /\ runs = 2

\* The statements of the plan with the given verb for the given column.
ColumnStmtsOf(verb, name) == SelectSeq(plan, LAMBDA t : t.verb = verb /\ t.object = name)

\* The desired columns that the catalog read found live, each with what was
\* read for it.
KeptColumns == {x \in [desired : DesiredColumnItems, existing : ExistingColumnItems] : x.desired.key = x.existing.key}

\* C28: for a desired column that is live, modify_table has one combined
\* MODIFY carrying type and nullability iff the type or the nullability
\* differs, one default statement iff the default differs, one COMMENT iff
\* the comment differs, and no statement for the column when all four are
\* equal.
C28_ColumnFacets ==
    (ModifyRun /\ pc = "Applying" /\ params.columns.given) =>
        \A x \in KeptColumns :
            LET d == x.desired.value
                e == x.existing.value
                name == x.desired.key
            IN  /\ ColumnStmtsOf("ModifyColumn", name) =
                      (IF e.type # d.type \/ e.nullable # d.nullable
                       THEN <<Stmt("ModifyColumn", name, <<>>, d.type \o <<IF d.nullable THEN "NULL" ELSE "NOT NULL">>)>>
                       ELSE <<>>)
                /\ Len(ColumnStmtsOf("SetDefault", name)) = (IF e.default # d.default THEN 1 ELSE 0)
                /\ Len(ColumnStmtsOf("CommentColumn", name)) = (IF e.comment # d.comment THEN 1 ELSE 0)
                /\ ColumnStmtsOf("AddColumn", name) = <<>>
                /\ ColumnStmtsOf("DropColumn", name) = <<>>

\* One live column differs in type, default and comment while the other live
\* column has no statement at all.
C28_Witness ==
    /\ ModifyRun /\ pc = "Applying" /\ params.columns.given
    /\ \E x \in KeptColumns :
          /\ ColumnStmtsOf("ModifyColumn", x.desired.key) # <<>>
          /\ ColumnStmtsOf("SetDefault", x.desired.key) # <<>>
          /\ ColumnStmtsOf("CommentColumn", x.desired.key) # <<>>
    /\ \E x \in KeptColumns : x.desired.value = x.existing.value

\* The calls that query the catalog views.
CatalogReads == {"table_exists", "get_existing_columns", "get_existing_constraints", "get_existing_indexes"}

\* C29: the live snapshot is read once and never refreshed: every catalog
\* read of a run (existence, columns, constraints, indexes) comes before its
\* first schema-changing statement, each at most once.
C29_SnapshotReadOnce ==
    /\ \A i, j \in DOMAIN log : (i < j /\ log[i].call = "execute") => log[j].call \notin CatalogReads
    /\ \A i, j \in DOMAIN log : (log[i].call \in CatalogReads /\ log[i].call = log[j].call) => i = j

\* A run read the whole snapshot and then executed three statements.
C29_Witness == Diffed /\ Len(Changes) >= 3 /\ pc = "Applying"

\* The columns of the live index of the given name in the order of their
\* column_position in user_ind_columns.
ByPosition(name) ==
    LET R == {r \in db0.indexes : r.index_name = name}
    IN  [k \in 1..Cardinality(R) |->
            (CHOOSE r \in R : Cardinality({q \in R : q.column_position < r.column_position}) = k - 1).column_name]

\* C30: the column list that get_existing_indexes builds for a live index is
\* ordered by the catalog's ordinal position, whatever the order in which
\* the rows are fetched.
C30_IndexColumnsByPosition ==
    (ModifyRun /\ pc = "Applying") =>
        \A i \in DOMAIN existing_indexes :
            existing_indexes[i].value.columns = ByPosition(existing_indexes[i].key)

\* The schema-changing statements of this run that the database executed.
AppliedChanges == SelectSeq(Changes, LAMBDA e : e.ok)

\* C31: the changed flag never under-reports: a run that has ended, in Done
\* or in Failed, after the database executed at least one of its
\* schema-changing statements returns changed = true.
C31_ChangedNeverUnderReports ==
    (pc \in Terminal /\ AppliedChanges # <<>>) => changed

\* The live constraints as get_existing_constraints returns them.
ExistingConstraintItems ==
    Range(get_existing_constraints(CHOOSE o \in FetchOrders(db0.constraints) : TRUE))

\* C32: whenever modify_table decides that a live constraint must be
\* dropped, a DROP CONSTRAINT of that constraint's catalog name is among the
\* statements handed to the executor, and building the statements never
\* aborts the run: a run ends in Failed only through a database error or the
\* check that the table exists.
C32_DropReachesExecutor ==
    /\ (ModifyRun /\ pc = "Applying" /\ params.columns.given) =>
            \A c \in ExistingConstraintItems :
                MustDropConstraint(c.value, params, desired_constraints(params))
                    => DropsConstraint(c.key)
    /\ pc = "Failed" => error \in {"cx_Oracle.Error", "fail_json"}

\* C33: a run with state=modified against a nonexistent table executes no
\* statement at all (no CREATE TABLE, no commit, no statistics call), leaves
\* the database as it was and returns changed = false, ending in the
\* failure that the table does not exist.
C33_ModifiedAbsentDoesNothing ==
    (params.state = "modified" /\ ~db0.exists) =>
        /\ \A i \in DOMAIN log : log[i].call \notin {"execute", "commit"}
        /\ ~changed
        /\ db = db0
        /\ plan = <<>>
        /\ Inspected => (pc = "Failed" /\ error = "fail_json")

\* A state=modified run outside check mode found no table and has ended.
C33_Witness == params.state = "modified" /\ ~db0.exists /\ ~params.check_mode /\ pc = "Failed" /\ conn = "closed"

\* The names of the foreign keys the task asks for.
DesiredForeignKeyNames ==
    IF params.foreign_keys.given
    THEN {params.foreign_keys.list[k].name : k \in DOMAIN params.foreign_keys.list}
    ELSE {}

\* The live foreign-key constraints that the task does not name.
UndesiredForeignKeys == {r \in db0.constraints : r.constraint_type = "R" /\ r.constraint_name \notin DesiredForeignKeyNames}

\* C34: foreign keys are never removed by the diff: no DROP CONSTRAINT is
\* issued, or planned, for a live foreign key whose name is not among the
\* desired foreign keys, and a run against the existing table leaves the
\* constraint in the catalog as long as its column is there.
C34_ForeignKeysNeverRemoved ==
    \A r \in UndesiredForeignKeys :
        /\ \A i \in DOMAIN Issued : ~(Issued[i].stmt.verb = "DropConstraint" /\ Issued[i].stmt.object = r.constraint_name)
        /\ \A i \in DOMAIN plan : ~(plan[i].verb = "DropConstraint" /\ plan[i].object = r.constraint_name)
        /\ (ModifyRun /\ r.column_name \in LiveColumnNames(db)) => r \in db.constraints

\* A run went through the foreign-key section and ended in Done while the
\* table has a foreign key that the task does not name.
C34_Witness ==
    /\ ModifyRun /\ pc = "Done" /\ params.foreign_keys.given /\ params.foreign_keys.list # <<>>
    /\ UndesiredForeignKeys # {}
    /\ \E i \in DOMAIN Issued : Issued[i].stmt.verb = "AddForeignKey"

\* The places in the log of the calls with the given name that returned.
CallsOf(call) == {i \in DOMAIN log : log[i].call = call /\ log[i].ok}

\* C35: a connection that was opened is closed exactly once by the time the
\* run has ended, on every path (Done, database failure, nonexistent table,
\* check mode, uncaught exception); a connection that was never opened is
\* not closed, and nothing is executed or queried after the close.
C35_ConnectionClosedOnce ==
    /\ Cardinality(CallsOf("close")) <= Cardinality(CallsOf("connect"))
    /\ Cardinality(CallsOf("connect")) <= 1
    /\ \A i \in CallsOf("close") : i = Len(log)
    /\ pc \in Terminal =>
          /\ Cardinality(CallsOf("close")) = Cardinality(CallsOf("connect"))
          /\ conn = (IF CallsOf("connect") = {} THEN "none" ELSE "closed")
    /\ pc \notin Terminal => (conn = "open" <=> CallsOf("connect") # {})

\* A run was stopped by a database error after it had executed a statement,
\* and its connection is closed.
C35_Witness == pc = "Failed" /\ error = "cx_Oracle.Error" /\ AppliedChanges # <<>> /\ CallsOf("close") # {}

\* C36: the loop of oracle_sqlplus stops at the first failure: when the
\* process of item k exited with a non-zero status, it is the last process
\* that was started, the items after k were not run, and the module has
\* ended in failure.
C36_LoopStopsAtFirstFailure ==
    \A k \in FailedProcesses :
        /\ k = Len(processes)
        /\ processes[k].item = k
        /\ item = k
        /\ sqlplus_pc = "Failed" /\ answer.failed

\* The first item of a two-item loop failed.
C36_Witness == Len(sqlplus_params.loop) = 2 /\ FailedProcesses = {1} /\ sqlplus_pc = "Failed"

\* ==========================================================================
\* The oracle_sqlloader module (plugins/modules/oracle_sqlloader.py)
\* ==========================================================================
\* The table of the optional parameters and their command-line options, in
\* the order of the code.
optional_params ==
    << <<"wallet_location", "wallet_location">>, <<"wallet_password", "wallet_password">>,
       <<"direct", "direct">>, <<"parallel", "parallel">>, <<"skip", "skip">>, <<"load", "load">>,
       <<"silent", "silent">>, <<"errors", "errors">>, <<"rows", "rows">>,
       <<"bindsize", "bindsize">>, <<"readsize", "readsize">>,
       <<"external_table", "external_table">>, <<"columnarrayrows", "columnarrayrows">>,
       <<"parfile", "parfile">>, <<"scratch_dir", "scratch_dir">>, <<"discard_file", "discard">>,
       <<"charset", "charset">>, <<"date_cache", "date_cache">>,
       <<"degree_of_parallelism", "degree_of_parallelism">>,
       <<"direct_path_lock_wait", "direct_path_lock_wait">>,
       <<"empty_lobs_are_null", "empty_lobs_are_null">>, <<"multithreading", "multithreading">>,
       <<"no_index_errors", "no_index_errors">>,
       <<"skip_index_maintenance", "skip_index_maintenance">>,
       <<"skip_unusable_indexes", "skip_unusable_indexes">>, <<"streamsize", "streamsize">>,
       <<"trim", "trim">> >>

\* The optional parameters, by name.
OptionalNames == {optional_params[i][1] : i \in DOMAIN optional_params}

\* The parameters the argument_spec declares with type bool; their values are
\* kept as "True" and "False".
BoolParams == {"direct", "parallel", "direct_path_lock_wait", "empty_lobs_are_null", "multithreading", "no_index_errors", "skip_index_maintenance", "skip_unusable_indexes"}

\* module.params of a task that gives only the required parameters and
\* username, password, host, port and sid; direct and parallel default to
\* False, every other optional parameter to None. check_mode is kept with the
\* parameters.
LoaderDefaults ==
    [k \in OptionalNames |-> IF k \in {"direct", "parallel"} THEN "False" ELSE None]
    @@ [check_mode |-> "False", username |-> "scott", password |-> "tiger", sid |-> "orcl",
        host |-> "db1", port |-> "1521", connection_string |-> None,
        control_file |-> "/data/load.ctl", data_file |-> "/data/load.dat",
        log_file |-> "/data/load.log", bad_file |-> "/data/load.bad"]

\* What a task may give beside the defaults.
LoaderOverrides ==
    { [check_mode |-> cm, control_file |-> cf, log_file |-> lf, connection_string |-> cs] @@ opt :
        cm \in {"False", "True"},
        cf \in {"/data/load.ctl", "/missing/load.ctl"},
        lf \in {"/data/load.log", "/nodir/load.log"},
        cs \in {None, "scott/tiger@orcl"},
        opt \in { [direct |-> "False"],
                  [direct |-> "True", skip |-> "10"],
                  [wallet_location |-> "/wallet"],
                  [wallet_location |-> "/wallet", parallel |-> "True", trim |-> "BOTH"],
                  [discard_file |-> "/data/load.dsc", errors |-> "50"] } }

\* The tasks the oracle_sqlloader module is invoked with.
LoaderTasks == {o @@ LoaderDefaults : o \in LoaderOverrides}

\* The files and directories that exist on the host.
LoaderPaths == {"/data", "/data/load.ctl", "/data/load.dat"}

\* os.path.dirname of the log and bad file names of the tasks.
dirname(path) == IF path \in {"/data/load.log", "/data/load.bad"} THEN "/data" ELSE "/nodir"

\* The message of the fail_json call of the file checks, None when they pass.
LoaderFileCheck(p) ==
    IF p.control_file \notin LoaderPaths THEN "File not found on remote host: " \o p.control_file
    ELSE IF p.data_file \notin LoaderPaths THEN "File not found on remote host: " \o p.data_file
    ELSE IF dirname(p.log_file) \notin LoaderPaths
    THEN "Directory not found on remote host for log_file: " \o dirname(p.log_file)
    ELSE IF dirname(p.bad_file) \notin LoaderPaths
    THEN "Directory not found on remote host for bad_file: " \o dirname(p.bad_file)
    ELSE None

\* The connect string.
LoaderConn(p) ==
    IF Truthy(p.connection_string) THEN p.connection_string
    ELSE p.username \o "/" \o p.password \o "@" \o p.host \o ":" \o p.port \o "/" \o p.sid

\* The argument vector before the optional parameters.
LoaderBaseCmd(p) ==
    <<"sqlldr", "userid=" \o LoaderConn(p), "control=" \o p.control_file, "data=" \o p.data_file,
      "log=" \o p.log_file, "bad=" \o p.bad_file>>

\* The option text of one optional parameter that is not None.
OptionText(p, param, cmd_option) ==
    IF param \in BoolParams
    THEN cmd_option \o "=" \o (IF p[param] = "True" THEN "true" ELSE "false")
    ELSE cmd_option \o "=" \o p[param]

\* The argument vector after the first lines of one iteration of the loop
\* over optional_params.
CmdWith(c, p, entry) == IF p[entry[1]] # None THEN Append(c, OptionText(p, entry[1], entry[2])) ELSE c

\* Check mode is tested before anything else.
LoaderStart ==
    /\ loader_pc = "start"
    /\ IF loader_params.check_mode = "True"
       THEN /\ loader_pc' = "Done"
            /\ loader_answer' = ExitJson(<<[changed |-> TRUE, message |-> "Check mode: SQL*Loader operation would be performed", cmd |-> <<>>, rc |-> 0, records_loaded |-> 0, records_rejected |-> 0]>>)
       ELSE /\ loader_pc' = "validate"
            /\ UNCHANGED loader_answer
    /\ UNCHANGED <<loader_params, cmd, started, beside_loader>>

\* The checks of the files and directories, and the command up to bad=.
LoaderValidate ==
    /\ loader_pc = "validate"
    /\ IF LoaderFileCheck(loader_params) # None
       THEN /\ loader_pc' = "Failed"
            /\ loader_answer' = FailJson(<<LoaderFileCheck(loader_params)>>, <<>>)
            /\ UNCHANGED cmd
       ELSE /\ loader_pc' = "options"
            /\ cmd' = LoaderBaseCmd(loader_params)
            /\ UNCHANGED loader_answer
    /\ UNCHANGED <<loader_params, started, beside_loader>>

\* The position in optional_params of the iteration the loop is at: every
\* iteration ends the module (exit_json or fail_json are inside the loop body),
\* so the loop is always at its first entry.
LoaderEntry == optional_params[1]

\* One iteration of the loop over optional_params when SQL*Loader exits with
\* status 0: the option of this entry, run_sqlloader, parse_log_file and
\* exit_json.
LoaderRunSucceeds ==
    /\ loader_pc = "options"
    /\ cmd' = CmdWith(cmd, loader_params, LoaderEntry)
    /\ started' = Append(started, cmd')
    /\ \E records \in {<<0, 0>>, <<5, 1>>} :
          loader_answer' = ExitJson(<<[changed |-> TRUE, message |-> "SQL*Loader executed successfully", cmd |-> cmd', rc |-> 0, records_loaded |-> records[1], records_rejected |-> records[2]]>>)
    /\ loader_pc' = "Done"
    /\ UNCHANGED <<loader_params, beside_loader>>

\* The iteration when SQL*Loader exits with another status: fail_json in
\* run_sqlloader.
LoaderRunFails ==
    /\ loader_pc = "options"
    /\ cmd' = CmdWith(cmd, loader_params, LoaderEntry)
    /\ started' = Append(started, cmd')
    /\ loader_answer' = FailJson(<<"SQL*Loader failed">>, <<[rc |-> 1, cmd |-> cmd']>>)
    /\ loader_pc' = "Failed"
    /\ UNCHANGED <<loader_params, beside_loader>>

\* The iteration when Popen raises (no sqlldr program): the except clause of
\* run_sqlloader.
LoaderRunRaises ==
    /\ loader_pc = "options"
    /\ cmd' = CmdWith(cmd, loader_params, LoaderEntry)
    /\ loader_answer' = FailJson(<<"FileNotFoundError">>, <<[rc |-> 0, cmd |-> cmd']>>)
    /\ loader_pc' = "Failed"
    /\ UNCHANGED <<loader_params, started, beside_loader>>

LoaderInit ==
    /\ loader_params \in LoaderTasks
    /\ loader_pc = "start"
    /\ cmd = <<>>
    /\ started = <<>>
    /\ loader_answer = NoAnswer
    /\ TableIdle
    /\ SqlplusIdle
    /\ AdminIdle

LoaderNext ==
    \/ LoaderStart
    \/ LoaderValidate
    \/ LoaderRunSucceeds
    \/ LoaderRunFails
    \/ LoaderRunRaises

LoaderSpec == LoaderInit /\ [][LoaderNext]_vars

\* The options of the optional parameters the task specified.
SpecifiedOptions == {OptionText(loader_params, optional_params[i][1], optional_params[i][2]) : i \in {j \in DOMAIN optional_params : loader_params[optional_params[j][1]] # None}}

\* C37: outside check mode a run that ends in Done started SQL*Loader exactly
\* once, with a command that has one option for every optional parameter the
\* task specified.
C37_EveryOptionPassed ==
    (loader_pc = "Done" /\ loader_params.check_mode = "False") =>
        /\ Len(started) = 1
        /\ \A o \in SpecifiedOptions : Cardinality({i \in DOMAIN started[1] : started[1][i] = o}) = 1

\* ==========================================================================
\* The oraclesql_user module (plugins/modules/oraclesql_user.py)
\* ==========================================================================
\* The tasks the oraclesql_user module is invoked with; privileges has no
\* default, so a task that does not give it has None.
UserTasks ==
    [connect_string : {"sys/secret@orcl"}, username : {"APP"}, password : {"s3cret"},
     state : {"present", "absent"},
     privileges : {NotGiven, Given(<<>>), Given(<<"CONNECT">>), Given(<<"CONNECT", "RESOURCE">>)},
     check_mode : BOOLEAN]

\* The users and grants the instance may have before the run.
Instances ==
    { [users |-> {}, privs |-> {}],
      [users |-> {"APP"}, privs |-> {}],
      [users |-> {"APP"}, privs |-> {<<"APP", "CONNECT">>}] }

\* An entry of user_log or database_log: a statement handed to
\* cursor.execute, and whether the database executed it.
Query(verb, text, ok) == [verb |-> verb, query |-> text, ok |-> ok]

\* The statement oraclesql_user is about to execute.
user_query ==
    CASE user_pc = "query"  -> Query("SELECT", "SELECT COUNT(*) FROM dba_users WHERE username = :username", TRUE)
      [] user_pc = "create" -> Query("CREATE USER", "CREATE USER " \o user_params.username \o " IDENTIFIED BY " \o user_params.password, TRUE)
      [] user_pc = "alter"  -> Query("ALTER USER", "ALTER USER " \o user_params.username \o " IDENTIFIED BY " \o user_params.password, TRUE)
      [] user_pc = "grant"  -> Query("GRANT", "GRANT " \o user_params.privileges.list[privilege] \o " TO " \o user_params.username, TRUE)
      [] user_pc = "drop"   -> Query("DROP USER", "DROP USER " \o user_params.username \o " CASCADE", TRUE)

\* "if privileges:" of create_or_update_user.
HasPrivileges(p) == p.privileges.given /\ p.privileges.list # <<>>

\* cx_Oracle.connect succeeds.
connect_to_oracle ==
    /\ user_pc = "connect"
    /\ connection' = "open"
    /\ user_pc' = "query"
    /\ UNCHANGED <<dba_users, dba_sys_privs, user_params, privilege, user_log, user_answer, database_vars, beside_admin>>

\* cx_Oracle.connect raises DatabaseError: fail_json, before the try of main.
ConnectToOracleFails ==
    /\ user_pc = "connect"
    /\ user_pc' = "Failed"
    /\ user_answer' = FailJson(<<"Failed to connect to Oracle">>, <<>>)
    /\ UNCHANGED <<dba_users, dba_sys_privs, user_params, connection, privilege, user_log, database_vars, beside_admin>>

\* The SELECT COUNT(*) of either state and the branch on its result; for
\* state=absent and no such user, exit_json(changed=False) and the finally
\* clause of main.
UserExists ==
    /\ user_pc = "query"
    /\ user_log' = Append(user_log, user_query)
    /\ IF user_params.state = "present"
       THEN /\ user_pc' = IF user_params.username \in dba_users THEN "alter" ELSE "create"
            /\ UNCHANGED <<connection, user_answer>>
       ELSE IF user_params.username \in dba_users
       THEN /\ user_pc' = "drop"
            /\ UNCHANGED <<connection, user_answer>>
       ELSE /\ user_pc' = "Done"
            /\ user_answer' = ExitJson(<<[changed |-> FALSE, msg |-> "User does not exist"]>>)
            /\ connection' = "closed"
    /\ UNCHANGED <<dba_users, dba_sys_privs, user_params, privilege, database_vars, beside_admin>>

\* CREATE USER and exit_json(changed=True); the finally clause of main.
CreateUser ==
    /\ user_pc = "create"
    /\ user_params.username \notin dba_users
    /\ user_log' = Append(user_log, user_query)
    /\ dba_users' = dba_users \cup {user_params.username}
    /\ user_pc' = "Done"
    /\ user_answer' = ExitJson(<<[changed |-> TRUE, msg |-> "User created successfully"]>>)
    /\ connection' = "closed"
    /\ UNCHANGED <<dba_sys_privs, user_params, privilege, database_vars, beside_admin>>

\* ALTER USER; without privileges, exit_json(changed=False) and the finally
\* clause of main.
AlterUser ==
    /\ user_pc = "alter"
    /\ user_params.username \in dba_users
    /\ user_log' = Append(user_log, user_query)
    /\ privilege' = 1
    /\ IF HasPrivileges(user_params)
       THEN /\ user_pc' = "grant"
            /\ UNCHANGED <<connection, user_answer>>
       ELSE /\ user_pc' = "Done"
            /\ user_answer' = ExitJson(<<[changed |-> FALSE, msg |-> "User exists and updated"]>>)
            /\ connection' = "closed"
    /\ UNCHANGED <<dba_users, dba_sys_privs, user_params, database_vars, beside_admin>>

\* One GRANT of the loop over privileges; after the last one,
\* exit_json(changed=False) and the finally clause of main.
GrantPrivilege ==
    /\ user_pc = "grant"
    /\ user_log' = Append(user_log, user_query)
    /\ dba_sys_privs' = dba_sys_privs \cup {<<user_params.username, user_params.privileges.list[privilege]>>}
    /\ IF privilege < Len(user_params.privileges.list)
       THEN /\ privilege' = privilege + 1
            /\ UNCHANGED <<user_pc, connection, user_answer>>
       ELSE /\ user_pc' = "Done"
            /\ user_answer' = ExitJson(<<[changed |-> FALSE, msg |-> "User exists and updated"]>>)
            /\ connection' = "closed"
            /\ UNCHANGED privilege
    /\ UNCHANGED <<dba_users, user_params, database_vars, beside_admin>>

\* DROP USER ... CASCADE and exit_json(changed=True); the finally clause of
\* main.
DropUser ==
    /\ user_pc = "drop"
    /\ user_params.username \in dba_users
    /\ user_log' = Append(user_log, user_query)
    /\ dba_users' = dba_users \ {user_params.username}
    /\ dba_sys_privs' = {g \in dba_sys_privs : g[1] # user_params.username}
    /\ user_pc' = "Done"
    /\ user_answer' = ExitJson(<<[changed |-> TRUE, msg |-> "User deleted successfully"]>>)
    /\ connection' = "closed"
    /\ UNCHANGED <<user_params, privilege, database_vars, beside_admin>>

\* cursor.execute raises DatabaseError in execute_sql_query: fail_json, and the
\* finally clause of main closes the connection.
ExecuteSqlQueryFails ==
    /\ user_pc \in {"query", "create", "alter", "grant", "drop"}
    /\ user_log' = Append(user_log, [user_query EXCEPT !.ok = FALSE])
    /\ user_pc' = "Failed"
    /\ user_answer' = FailJson(<<"Failed to execute SQL query: " \o user_query.query>>, <<>>)
    /\ connection' = "closed"
    /\ UNCHANGED <<dba_users, dba_sys_privs, user_params, privilege, database_vars, beside_admin>>

\* ==========================================================================
\* The oraclesql_database module (plugins/modules/oraclesql_database.py)
\* ==========================================================================
\* The tasks the oraclesql_database module is invoked with.
DatabaseTasks ==
    [db_name : {"SALES"}, state : {"present", "absent"}, db_type : {"CDB", "PDB"},
     oracle_home : {"/opt/oracle"}, oracle_sid : {"orcl"}, db_admin_user : {"sys"},
     db_admin_password : {"secret"}, check_mode : BOOLEAN]

\* sql_commands of create_database and drop_database.
sql_commands(p) ==
    IF p.state = "present"
    THEN IF p.db_type = "CDB"
         THEN <<Query("CREATE DATABASE", "CREATE DATABASE " \o p.db_name \o " ENABLE PLUGGABLE DATABASE", TRUE)>>
         ELSE <<Query("CREATE DATABASE", "CREATE PLUGGABLE DATABASE " \o p.db_name, TRUE)>>
    ELSE IF p.db_type = "CDB"
         THEN <<Query("DROP DATABASE", "DROP DATABASE " \o p.db_name, TRUE)>>
         ELSE <<Query("DROP DATABASE", "DROP PLUGGABLE DATABASE " \o p.db_name, TRUE)>>

\* AnsibleModule(argument_spec, supports_check_mode=True, documentation=...,
\* examples=...) returns a module.
DatabaseModule ==
    /\ database_pc = "start"
    /\ database_pc' = "run"
    /\ UNCHANGED <<databases, database_params, database_log, database_answer, user_vars, beside_admin>>

\* The constructor rejects the keyword arguments documentation and examples:
\* TypeError, uncaught.
DatabaseModuleRaises ==
    /\ database_pc = "start"
    /\ database_pc' = "Crashed"
    /\ UNCHANGED <<databases, database_params, database_log, database_answer, user_vars, beside_admin>>

\* create_database or drop_database when run_sql_command succeeds: connect,
\* execute, commit, exit_json(changed=True).
run_sql_command ==
    /\ database_pc = "run"
    /\ (database_params.state = "present") = (database_params.db_name \notin databases)
    /\ database_log' = database_log \o sql_commands(database_params)
    /\ databases' = IF database_params.state = "present" THEN databases \cup {database_params.db_name} ELSE databases \ {database_params.db_name}
    /\ database_pc' = "Done"
    /\ database_answer' = ExitJson(<<[changed |-> TRUE, db_name |-> database_params.db_name, state |-> database_params.state, db_type |-> database_params.db_type]>>)
    /\ UNCHANGED <<database_params, user_vars, beside_admin>>

\* cursor.execute raises DatabaseError in run_sql_command: fail_json.
RunSqlCommandFails ==
    /\ database_pc = "run"
    /\ database_log' = database_log \o <<[sql_commands(database_params)[1] EXCEPT !.ok = FALSE]>>
    /\ database_pc' = "Failed"
    /\ database_answer' = FailJson(<<"ORA-error">>, <<>>)
    /\ UNCHANGED <<databases, database_params, user_vars, beside_admin>>

\* cx_Oracle.connect raises DatabaseError in run_sql_command: fail_json.
RunSqlCommandConnectFails ==
    /\ database_pc = "run"
    /\ database_pc' = "Failed"
    /\ database_answer' = FailJson(<<"ORA-12154">>, <<>>)
    /\ UNCHANGED <<databases, database_params, database_log, user_vars, beside_admin>>

\* One run of oraclesql_user and one of oraclesql_database against an instance.
AdminInit ==
    /\ \E i \in Instances : dba_users = i.users /\ dba_sys_privs = i.privs
    /\ user_params \in UserTasks
    /\ user_pc = "connect"
    /\ connection = "none"
    /\ privilege = 1
    /\ user_log = <<>>
    /\ user_answer = NoAnswer
    /\ databases \in {{}, {"SALES"}}
    /\ database_params \in DatabaseTasks
    /\ database_pc = "start"
    /\ database_log = <<>>
    /\ database_answer = NoAnswer
    /\ TableIdle
    /\ SqlplusIdle
    /\ LoaderIdle

AdminNext ==
    \/ connect_to_oracle
    \/ ConnectToOracleFails
    \/ UserExists
    \/ CreateUser
    \/ AlterUser
    \/ GrantPrivilege
    \/ DropUser
    \/ ExecuteSqlQueryFails
    \/ DatabaseModule
    \/ DatabaseModuleRaises
    \/ run_sql_command
    \/ RunSqlCommandFails
    \/ RunSqlCommandConnectFails

AdminSpec == AdminInit /\ [][AdminNext]_vars

\* The statements of a log that the database executed and that are not
\* queries.
Mutations(l) == SelectSeq(l, LAMBDA q : q.ok /\ q.verb # "SELECT")

\* C38: after a successful run with state=present the user exists and holds
\* every requested privilege, whether the run found the user or created it,
\* and changed is true whenever the run executed a CREATE, ALTER or GRANT.
C38_PresentConverges ==
    (user_pc = "Done" /\ user_params.state = "present") =>
        ( /\ user_params.username \in dba_users
          /\ (user_params.privileges.given => \A i \in DOMAIN user_params.privileges.list : <<user_params.username, user_params.privileges.list[i]>> \in dba_sys_privs)
          /\ (Mutations(user_log) # <<>> => user_answer.kwargs[1].changed) )

\* C39: in check mode neither oraclesql_user nor oraclesql_database executes
\* a mutating statement (CREATE, ALTER or DROP USER, GRANT, CREATE or DROP
\* DATABASE).
C39_CheckModeExecutesNothing ==
    /\ (user_params.check_mode => Mutations(user_log) = <<>>)
    /\ (database_params.check_mode => Mutations(database_log) = <<>>)

====
